---- MODULE Spec2Model ----
(***************************************************************************)
(* Model of the sprite placement kernel of maplibre-gl-layers (wasm):      *)
(* prepareDrawSpriteImages and its stages (Decode, Precompute,             *)
(* DepthCollect, Sort, PrepareDraw, Pack) from calculation_host.cpp, and   *)
(* the range partitioner runWorkerJobs from worker_jobs.h.                 *)
(*                                                                         *)
(* Doubles of the flat buffers are records [k, h]: k = "fin" is the finite *)
(* value h/2 (so that 87.5 and 88 are different header values and the      *)
(* rounding of convertToSizeT is visible), "nan" is NaN, "inf" is an       *)
(* infinity and "huge" a finite value of at least 2^32.                    *)
(* The floating-point geometry (projection, depth key, corner solvers) is  *)
(* carried by the input as the outcome it has for each item: the           *)
(* orchestration reads only whether a step succeeded and the key it gave.  *)
(***************************************************************************)
EXTENDS Integers, Sequences, FiniteSets, TLC

VARIABLES
  hdr,            \* InputBufferHeader, as the host wrote it
  frame,          \* frame constants and flags that the orchestration reads
  resTable,       \* resource table of the input buffer
  itemTable,      \* item table of the input buffer
  pc,             \* position of the prepareDrawSpriteImages call
  ret,            \* its return value (read only once pc = "done")
  outHeader,      \* ResultBufferHeader of the output buffer
  outSlots,       \* item record slots of the output buffer
  resources,      \* std::vector<ResourceInfo>
  bucketItems,    \* std::vector<BucketItem>
  depthWorkerCount,
  depthSpawned,   \* workers started so far by the DepthCollect loop
  depthWorkers,   \* per started worker: its range and progress
  workerOutputs,  \* std::vector<std::vector<DepthItem>>
  depthItems,     \* gathered, then sorted, depth items
  prepWorkerCount,
  prepSpawned,
  prepWorkers,
  stagedResults,
  preparedFlags,
  hitTestFlags,
  surfaceFlags,
  acc,            \* memory accesses of the running parallel phase
  stage,          \* stages entered so far, in order
  jobN,           \* runWorkerJobs: totalItems
  jobW,           \* runWorkerJobs: workerCount
  jobPc,
  jobSpawned,
  jobWorkers,
  jobHits,        \* runWorkerJobs: how often job touched each index
  g_threadPoolLimit,    \* calculation_host.cpp line 35 (0 = no override)
  headerPoolLimit,      \* g_threadPoolLimit of worker_jobs.h line 24
  hardwareConcurrency,  \* std::thread::hardware_concurrency()
  lastPoolArg,    \* argument of the latest setThreadPoolSize call
  wcPhase,        \* worker-count function evaluated last
  wcTotal,        \* its totalItems
  wcCount,        \* its result
  calls,          \* finished invocations: input, return value, output
  sortMemo,       \* what std::sort made of each sequence it was given
  fn,             \* helper function evaluated on its own ("none": not yet)
  fnArgs,         \* its arguments
  fnOut,          \* what it returned
  geometryCalls   \* surface geometry helpers called so far, by stage and item

inVars == <<hdr, frame, resTable, itemTable>>
outVars == <<outHeader, outSlots>>
decVars == <<resources, bucketItems>>
depthVars == <<depthWorkerCount, depthSpawned, depthWorkers, workerOutputs>>
prepVars == <<prepWorkerCount, prepSpawned, prepWorkers>>
stageVars == <<stagedResults, preparedFlags, hitTestFlags, surfaceFlags>>
pipeVars == <<inVars, pc, ret, outVars, decVars, depthVars, depthItems,
              prepVars, stageVars, acc, stage>>
jobVars == <<jobN, jobW, jobPc, jobSpawned, jobWorkers, jobHits>>
poolVars == <<g_threadPoolLimit, headerPoolLimit, hardwareConcurrency>>
poolHist == <<lastPoolArg>>
countVars == <<wcPhase, wcTotal, wcCount>>
fnVars == <<fn, fnArgs, fnOut>>
envVars == <<poolVars, poolHist, countVars, calls, sortMemo, fnVars>>
histVars == <<geometryCalls>>
vars == <<pipeVars, jobVars, envVars, histVars>>

----------------------------------------------------------------------------
(* Bounds of the model *)

MaxItems == 3
MaxWorkers == 2
MaxJobItems == 5
MaxJobWorkers == 3

----------------------------------------------------------------------------
(* Layout constants, param_layouts.h *)

INPUT_HEADER_LENGTH == 15
INPUT_FRAME_CONSTANT_LENGTH == 24
INPUT_MATRIX_LENGTH == 48
RESOURCE_STRIDE == 9
SPRITE_STRIDE == 6
ITEM_STRIDE == 27
RESULT_HEADER_LENGTH == 7
RESULT_VERTEX_COMPONENT_LENGTH == 36
RESULT_HIT_TEST_COMPONENT_LENGTH == 8
RESULT_COMMON_ITEM_LENGTH == 19
RESULT_SURFACE_BLOCK_LENGTH == 68
RESULT_ITEM_STRIDE ==
  RESULT_COMMON_ITEM_LENGTH + RESULT_VERTEX_COMPONENT_LENGTH +
  RESULT_HIT_TEST_COMPONENT_LENGTH + RESULT_SURFACE_BLOCK_LENGTH
SURFACE_CLIP_CORNER_COUNT == 4
RESULT_FLAG_HAS_HIT_TEST == 1
RESULT_FLAG_HAS_SURFACE_INPUTS == 2

\* size_t is 32 bits wide on wasm32; a value is kept as two 16-bit limbs
\* where it can exceed what the checker's integers hold.
LIMB == 256 * 256

\* Largest element count std::vector<BucketItem>(n) and
\* std::vector<ResourceInfo>(n) can be constructed with on wasm32:
\* (2^32 - 1) divided by the 208 and 72 bytes of one element. A larger n
\* throws std::length_error, which ends the call without a return value.
MAX_BUCKET_ITEMS == 20648881
MAX_RESOURCE_INFOS == 59652323

----------------------------------------------------------------------------
(* Doubles *)

Fin(h) == [k |-> "fin", h |-> h]
D(n) == Fin(2 * n)
NaN == [k |-> "nan", h |-> 0]
Inf == [k |-> "inf", h |-> 0]
NegInf == [k |-> "ninf", h |-> 0]
Huge == [k |-> "huge", h |-> 0]
\* a value strictly between 0 and 0.5
Tiny == [k |-> "tiny", h |-> 0]

IsFinite(v) == v.k \in {"fin", "huge", "tiny"}
IsNaN(v) == v.k = "nan"

\* a < b and a != b on doubles, as the hardware compares them: every
\* comparison with a NaN is false, and NaN != x is true.
DLess(a, b) ==
  /\ a.k = "fin"
  /\ b.k = "fin"
  /\ a.h < b.h
DNotEqual(a, b) == IsNaN(a) \/ IsNaN(b) \/ a # b
\* a >= b for a finite b
DGreaterOrEqual(a, b) ==
  \/ a.k = "fin" /\ b.k = "fin" /\ a.h >= b.h
  \/ a.k \in {"inf", "huge"} /\ b.k = "fin"

\* std::floor(value + 0.5) of a finite value below 2^32
FloorPlusHalf(h) == (h + 1) \div 2

convertToSizeT(value) ==
  IF ~IsFinite(value) THEN [ok |-> FALSE, val |-> 0]
  ELSE IF value.k = "huge" THEN [ok |-> FALSE, val |-> 0]
  ELSE IF value.h < 0 THEN [ok |-> FALSE, val |-> 0]
  ELSE [ok |-> TRUE, val |-> FloorPlusHalf(value.h)]

\* std::trunc of a finite value: towards zero
TruncHalves(h) == IF h >= 0 THEN h \div 2 ELSE -((-h) \div 2)

convertToInt64(value) ==
  IF value.k # "fin" THEN [ok |-> FALSE, val |-> 0]
  ELSE [ok |-> TRUE, val |-> TruncHalves(value.h)]

----------------------------------------------------------------------------
(* size_t arithmetic *)

\* count * stride modulo 2^32, as limbs <<high, low>>
SizeMul(count, stride) ==
  LET al == count % LIMB
      ah == count \div LIMB
      pl == al * stride
      ph == ah * stride + (pl \div LIMB)
  IN  <<ph % LIMB, pl % LIMB>>

Limbs(n) == <<n \div LIMB, n % LIMB>>

LimbsGreater(a, b) == a[1] > b[1] \/ (a[1] = b[1] /\ a[2] > b[2])

validateSpanNoOffset(totalLength, offset, length) ==
  ~LimbsGreater(length, Limbs(totalLength))

\* validateSpan(totalLength, offset, length): length is given as limbs
validateSpan(totalLength, offset, length) ==
  IF offset > totalLength THEN FALSE
  ELSE IF LimbsGreater(length, Limbs(totalLength - offset)) THEN FALSE
  ELSE TRUE

----------------------------------------------------------------------------
(* Decode: header validation, prepareDrawSpriteImages lines 2700-2771 *)

StaleHeader ==
  [preparedCount |-> -1, itemStride |-> -1, vertexComponentCount |-> -1,
   surfaceCornerCount |-> -1, flags |-> -1, reserved0 |-> -1, reserved1 |-> -1]

initializeResultHeaderStale == StaleHeader

initializeResultHeader ==
  [preparedCount |-> 0, itemStride |-> RESULT_ITEM_STRIDE,
   vertexComponentCount |-> RESULT_VERTEX_COMPONENT_LENGTH,
   surfaceCornerCount |-> SURFACE_CLIP_CORNER_COUNT,
   flags |-> 0, reserved0 |-> 0, reserved1 |-> 0]

\* The converted header fields and whether every check of Decode passed.
DecodeHeader(h) ==
  LET totalLength == convertToSizeT(h.totalLength)
      frameConstCount == convertToSizeT(h.frameConstCount)
      matrixOffset == convertToSizeT(h.matrixOffset)
      resourceCount == convertToSizeT(h.resourceCount)
      resourceOffset == convertToSizeT(h.resourceOffset)
      spriteCount == convertToSizeT(h.spriteCount)
      spriteOffset == convertToSizeT(h.spriteOffset)
      itemCount == convertToSizeT(h.itemCount)
      itemOffset == convertToSizeT(h.itemOffset)
  IN  [ok |->
         /\ totalLength.ok
         /\ totalLength.val >= INPUT_HEADER_LENGTH
         /\ frameConstCount.ok
         /\ frameConstCount.val = INPUT_FRAME_CONSTANT_LENGTH
         /\ matrixOffset.ok
         /\ validateSpan(totalLength.val, matrixOffset.val,
                         Limbs(INPUT_MATRIX_LENGTH))
         /\ resourceCount.ok
         /\ resourceOffset.ok
         /\ validateSpan(totalLength.val, resourceOffset.val,
                         SizeMul(resourceCount.val, RESOURCE_STRIDE))
         /\ spriteCount.ok
         /\ spriteOffset.ok
         /\ validateSpan(totalLength.val, spriteOffset.val,
                         SizeMul(spriteCount.val, SPRITE_STRIDE))
         /\ itemCount.ok
         /\ itemOffset.ok
         /\ validateSpan(totalLength.val, itemOffset.val,
                         SizeMul(itemCount.val, ITEM_STRIDE))
         /\ validateSpan(totalLength.val, INPUT_HEADER_LENGTH,
                         Limbs(frameConstCount.val)),
       totalLength |-> totalLength.val,
       frameConstCount |-> frameConstCount.val,
       matrixOffset |-> matrixOffset.val,
       resourceCount |-> resourceCount.val,
       resourceOffset |-> resourceOffset.val,
       spriteCount |-> spriteCount.val,
       spriteOffset |-> spriteOffset.val,
       itemCount |-> itemCount.val,
       itemOffset |-> itemOffset.val]

\* std::vector<ResourceInfo> resources(resourceCount) and
\* std::vector<BucketItem> bucketItems(itemCount) can be constructed.
VectorsFit(dec) ==
  /\ dec.resourceCount <= MAX_RESOURCE_INFOS
  /\ dec.itemCount <= MAX_BUCKET_ITEMS

----------------------------------------------------------------------------
(* Decode: working views, prepareDrawSpriteImages lines 2773-2858 *)

\* findResourceByHandle: 0 is nullptr, i > 0 is &resources[i - 1]
findResourceByHandle(res, handleValue) ==
  LET handleIndex == convertToSizeT(handleValue)
  IN  IF ~handleIndex.ok THEN 0
      ELSE IF handleIndex.val >= Len(res) THEN 0
      ELSE handleIndex.val + 1

\* One ResourceInfo of the decoded vector
DecodeResource(entry, i) ==
  [handle |-> i - 1,
   sizePositive |-> entry.sizePositive,
   textureReady |-> entry.textureReady]

\* One BucketItem as the Decode loop leaves it. entry is the index of the
\* item record it views (1-based); projectedValid is what projectSpritePoint
\* returned for the item's location.
DecodeBucketItem(tbl, res, i) ==
  LET sh == convertToInt64(tbl[i].spriteHandle)
  IN  [entry |-> i,
       resource |-> findResourceByHandle(res, tbl[i].resourceHandle),
       projectedValid |-> tbl[i].projOk,
       spriteHandle |-> IF sh.ok THEN sh.val ELSE 0,
       hasEffectivePixelsPerMeter |-> FALSE,
       hasResolvedAnchorCenter |-> FALSE,
       hasAnchorlessCenter |-> FALSE]

\* clipContextAvailable, lines 2792-2795
clipContextAvailable(f) ==
  /\ f.drawingBufferPositive
  /\ f.pixelRatioUsable

----------------------------------------------------------------------------
(* Origin references *)

SPRITE_ORIGIN_REFERENCE_INDEX_NONE == -1

hasOriginLocation(entry) ==
  \/ DNotEqual(entry.originTargetIndex, D(SPRITE_ORIGIN_REFERENCE_INDEX_NONE))
  \/ /\ DGreaterOrEqual(entry.originSubLayer, D(0))
     /\ DGreaterOrEqual(entry.originOrder, D(0))

\* resolveOriginBucketItem: 0 is nullptr, i > 0 is &bucketItems[i - 1]
resolveOriginBucketItem(tbl, buckets, cur) ==
  LET originIndex == convertToInt64(tbl[buckets[cur].entry].originTargetIndex)
  IN  IF ~originIndex.ok THEN 0
      ELSE IF originIndex.val = SPRITE_ORIGIN_REFERENCE_INDEX_NONE THEN 0
      ELSE IF originIndex.val < 0 \/ originIndex.val >= Len(buckets) THEN 0
      ELSE IF buckets[originIndex.val + 1].spriteHandle
                # buckets[cur].spriteHandle THEN 0
      ELSE originIndex.val + 1

\* The item computeImageCenter recurses into from item cur, 0 when it does
\* not recurse (lines 1210-1224).
OriginStep(tbl, buckets, cur) ==
  IF ~hasOriginLocation(tbl[buckets[cur].entry]) THEN 0
  ELSE LET reference == resolveOriginBucketItem(tbl, buckets, cur)
       IN  IF reference # 0 /\ buckets[reference].resource # 0
           THEN reference ELSE 0

\* computeImageCenter returns for item cur: its recursion through the
\* origin chain ends. fuel bounds the walk: a chain longer than the table
\* revisits an item and never ends.
RECURSIVE computeImageCenterReturns(_, _, _, _)
computeImageCenterReturns(tbl, buckets, cur, fuel) ==
  LET next == OriginStep(tbl, buckets, cur)
  IN  IF next = 0 THEN TRUE
      ELSE IF fuel = 0 THEN FALSE
      ELSE computeImageCenterReturns(tbl, buckets, next, fuel - 1)

----------------------------------------------------------------------------
(* Precompute: precomputeBucketCenters, ensureBucketEffectivePixelsPerMeter *)

\* ensureBucketEffectivePixelsPerMeter on one bucket: the value returned,
\* the bucket afterwards and whether the bucket was written.
ensureBucketEffectivePixelsPerMeter(tbl, bucket) ==
  IF bucket.hasEffectivePixelsPerMeter
  THEN [ok |-> TRUE, bucket |-> bucket, wrote |-> FALSE]
  ELSE IF ~tbl[bucket.entry].eppmOk
  THEN [ok |-> FALSE, bucket |-> bucket, wrote |-> FALSE]
  ELSE [ok |-> TRUE,
        bucket |-> [bucket EXCEPT !.hasEffectivePixelsPerMeter = TRUE],
        wrote |-> TRUE]

\* The loop body of precomputeBucketCenters reaches computeImageCenter
PrecomputeVisits(tbl, bucket) ==
  /\ bucket.resource # 0
  /\ bucket.projectedValid
  /\ ensureBucketEffectivePixelsPerMeter(tbl, bucket).ok

\* A Precompute that leaves the bucket as Decode made it
PrecomputeBucketSkipped(tbl, bucket) == bucket

PrecomputeBucket(tbl, bucket) ==
  IF ~PrecomputeVisits(tbl, bucket)
  THEN IF bucket.resource # 0 /\ bucket.projectedValid
       THEN ensureBucketEffectivePixelsPerMeter(tbl, bucket).bucket
       ELSE bucket
  ELSE [ensureBucketEffectivePixelsPerMeter(tbl, bucket).bucket EXCEPT
          !.hasResolvedAnchorCenter = TRUE,
          !.hasAnchorlessCenter = TRUE]

\* Every computeImageCenter call of the Precompute loop returns
PrecomputeReturns(tbl, buckets) ==
  \A i \in 1..Len(buckets) :
    PrecomputeVisits(tbl, buckets[i])
      => computeImageCenterReturns(tbl, buckets, i, Len(buckets))

precomputeBucketCenters(tbl, buckets) ==
  [i \in 1..Len(buckets) |-> PrecomputeBucket(tbl, buckets[i])]

----------------------------------------------------------------------------
(* Range partition shared by runWorkerJobs and the two dispatch loops *)

Min(a, b) == IF a < b THEN a ELSE b

SliceSizeFloor(total, workerCount) == total \div workerCount

\* sliceSize = (totalItems + workerCount - 1) / workerCount
SliceSize(total, workerCount) == (total + workerCount - 1) \div workerCount

\* start and end of the range of the worker with (0-based) workerIndex
RangeStart(workerIndex, total, workerCount) ==
  workerIndex * SliceSize(total, workerCount)

RangeEndOverlapping(workerIndex, total, workerCount) ==
  Min(total, RangeStart(workerIndex, total, workerCount)
               + SliceSize(total, workerCount) + 1)

RangeEnd(workerIndex, total, workerCount) ==
  Min(total, RangeStart(workerIndex, total, workerCount)
               + SliceSize(total, workerCount))

\* The spawn loop has ended after `spawned` workers: the index ran out or
\* the next start is past the end (the break).
SpawnLoopEnded(spawned, total, workerCount) ==
  \/ spawned >= workerCount
  \/ RangeStart(spawned, total, workerCount) >= total

----------------------------------------------------------------------------
(* Worker pool: calculation_host.cpp lines 34-61, 1403-1426, 1590-1613,   *)
(* worker_jobs.h lines 22-85 (the build with threads)                      *)

\* g_threadPoolLimit is a size_t, kept as limbs; 0 means no override
NoLimit == <<0, 0>>
SIZE_MAX == <<LIMB - 1, LIMB - 1>>

DEPTH_PARALLEL_MIN_ITEMS == 512
DEPTH_PARALLEL_SLICE == 256
PREPARE_PARALLEL_MIN_ITEMS == 256
PREPARE_PARALLEL_SLICE == 128
INTERPOLATION_PARALLEL_MIN_ITEMS == 512
INTERPOLATION_PARALLEL_SLICE == 256

Max(a, b) == IF a > b THEN a ELSE b

\* The values setThreadPoolSize(value) can leave in g_threadPoolLimit.
\* floor(value + 0.5) of a value below 0.5 is 0, which stores 0; of
\* +infinity it is not finite, which returns early; the static_cast of a
\* value of 2^32 or more is out of the range of size_t: the build either
\* saturates it or yields 0.
ThreadPoolLimitAfter(limit, value) ==
  IF IsNaN(value) \/ value.k = "ninf" \/ (value.k = "fin" /\ value.h <= 0)
  THEN {NoLimit}
  ELSE IF value.k = "inf" THEN {limit}
  ELSE IF value.k = "huge" THEN {NoLimit, SIZE_MAX}
  ELSE IF value.k = "tiny" THEN {NoLimit}
  ELSE {Limbs(FloorPlusHalf(value.h))}

\* hardware_concurrency() with its fallback (hw == 0u gives 4u)
EffectiveHardware ==
  IF hardwareConcurrency = 0 THEN 4 ELSE hardwareConcurrency

\* std::min(requested, limit) for a limit held as limbs
MinWithLimit(requested, limit) ==
  IF LimbsGreater(Limbs(requested), limit)
  THEN limit[1] * LIMB + limit[2]
  ELSE requested

\* The variant of the build without threads: the request as it is
clampToAvailableThreadsIdentity(requested) == requested

\* calculation_host.cpp lines 52-61
clampToAvailableThreads(requested) ==
  IF g_threadPoolLimit # NoLimit
  THEN MinWithLimit(requested, g_threadPoolLimit)
  ELSE Min(requested, EffectiveHardware)

\* worker_jobs.h lines 41-50, on the header's own g_threadPoolLimit
headerClampToAvailableThreads(requested) ==
  IF headerPoolLimit # NoLimit
  THEN MinWithLimit(requested, headerPoolLimit)
  ELSE Min(requested, EffectiveHardware)

determineDepthWorkerCount(totalItems) ==
  IF totalItems < DEPTH_PARALLEL_MIN_ITEMS THEN 1
  ELSE LET maxWorkers == EffectiveHardware
           bySize == Max(1, totalItems \div DEPTH_PARALLEL_SLICE)
       IN  clampToAvailableThreads(Min(maxWorkers, bySize))

determinePrepareWorkerCount(totalItems) ==
  IF totalItems < PREPARE_PARALLEL_MIN_ITEMS THEN 1
  ELSE LET maxWorkers == EffectiveHardware
           bySize == Max(1, totalItems \div PREPARE_PARALLEL_SLICE)
       IN  clampToAvailableThreads(Min(maxWorkers, bySize))

determineWorkerCount(totalItems, minParallelItems, sliceItems) ==
  IF totalItems < minParallelItems THEN 1
  ELSE LET maxWorkers == headerClampToAvailableThreads(EffectiveHardware)
           bySize == Max(1, IF sliceItems > 0
                            THEN totalItems \div sliceItems ELSE 1)
       IN  Min(maxWorkers, bySize)

determineInterpolationWorkerCount(totalItems) ==
  determineWorkerCount(totalItems, INTERPOLATION_PARALLEL_MIN_ITEMS,
                       INTERPOLATION_PARALLEL_SLICE)

\* A dispatch that takes no notice of the override
AnyWorkerCount(k) == TRUE

\* A worker count above 1 that a parallel phase can be given: what the
\* clamp lets through of a request of maxWorkers (reached when bySize is
\* at least that large)
WorkerCountAllowed(k) == k <= clampToAvailableThreads(EffectiveHardware)

----------------------------------------------------------------------------
(* DepthCollect: processDepthRange, one item at a time *)

\* -ndcZ of a finite ndcZ
Negate(v) == IF v.k = "fin" THEN Fin(-v.h) ELSE v

\* A depth key taken without looking at the projection or at ndcZ
calculateDepthKeyUnchecked(entry) == [ok |-> TRUE, key |-> Negate(entry.ndcZ)]

\* __calculateBillboardDepthKey and __calculateSurfaceDepthKey: they fail
\* when a projection fails or when ndcZ is not finite, else give -ndcZ.
calculateDepthKey(entry) ==
  IF ~entry.clipOk THEN [ok |-> FALSE, key |-> D(0)]
  ELSE IF ~IsFinite(entry.ndcZ) THEN [ok |-> FALSE, key |-> D(0)]
  ELSE [ok |-> TRUE, key |-> Negate(entry.ndcZ)]

isSurface(entry) == entry.mode = 0

\* The body of the loop of processDepthRange for index idx (1-based):
\* whether a DepthItem is pushed, whether the body got past the guards to
\* the depth key, the DepthItem, the bucket afterwards and whether the
\* bucket was written.
processDepthItem(tbl, res, buckets, idx) ==
  LET b == buckets[idx]
      none == [push |-> FALSE, reached |-> FALSE,
               item |-> [item |-> idx, depthKey |-> D(0),
                         hasSurfaceData |-> FALSE],
               bucket |-> b, wrote |-> FALSE]
  IN  IF b.resource = 0 THEN none
      ELSE IF ~res[b.resource].textureReady THEN none
      ELSE IF ~b.projectedValid THEN none
      ELSE LET e == ensureBucketEffectivePixelsPerMeter(tbl, b)
               key == calculateDepthKey(tbl[b.entry])
           IN  IF ~e.ok THEN none
               ELSE IF ~key.ok
               THEN [none EXCEPT !.reached = TRUE, !.bucket = e.bucket,
                                 !.wrote = e.wrote]
               ELSE [push |-> TRUE, reached |-> TRUE,
                     item |-> [item |-> idx, depthKey |-> key.key,
                               hasSurfaceData |-> isSurface(tbl[b.entry])],
                     bucket |-> e.bucket,
                     wrote |-> e.wrote]

\* Locations the loop body for idx reads and writes, as the worker with
\* the given id. A location is <<array, index, field group>>.
DepthAccesses(tbl, res, buckets, idx, worker) ==
  LET b == buckets[idx]
      r == processDepthItem(tbl, res, buckets, idx)
      reference == resolveOriginBucketItem(tbl, buckets, idx)
      own == {[w |-> worker, loc |-> <<"bucketItems", idx, g>>, wr |-> FALSE] :
                g \in {"entry", "eppm", "center"}}
      ref == IF /\ r.reached
                /\ isSurface(tbl[b.entry])
                /\ hasOriginLocation(tbl[b.entry])
                /\ reference # 0
             THEN {[w |-> worker, loc |-> <<"bucketItems", reference, g>>,
                    wr |-> FALSE] : g \in {"entry", "center"}}
             ELSE {}
      eppm == IF r.wrote
              THEN {[w |-> worker, loc |-> <<"bucketItems", idx, "eppm">>,
                     wr |-> TRUE]}
              ELSE {}
      out == {[w |-> worker, loc |-> <<"workerOutputs", worker, "vector">>,
               wr |-> TRUE]}
  IN  own \cup ref \cup eppm \cup out

\* processDepthRange(ctx, startIndex, endIndex, out) run to its end:
\* 0-based half-open range, out cleared first.
RECURSIVE processDepthRange(_, _, _, _, _)
processDepthRange(tbl, res, buckets, startIndex, endIndex) ==
  IF startIndex >= Min(endIndex, Len(buckets))
  THEN [items |-> <<>>, buckets |-> buckets]
  ELSE LET r == processDepthItem(tbl, res, buckets, startIndex + 1)
           after == [buckets EXCEPT ![startIndex + 1] = r.bucket]
           rest == processDepthRange(tbl, res, after, startIndex + 1, endIndex)
       IN  [items |-> IF r.push THEN <<r.item>> \o rest.items ELSE rest.items,
            buckets |-> rest.buckets]

RECURSIVE GatherLastFirst(_)
GatherLastFirst(outputs) ==
  IF outputs = <<>> THEN <<>>
  ELSE GatherLastFirst(Tail(outputs)) \o Head(outputs)

\* Gather of lines 1664-1670: the worker vectors in workerIndex order
RECURSIVE GatherWorkerOutputs(_)
GatherWorkerOutputs(outputs) ==
  IF outputs = <<>> THEN <<>>
  ELSE Head(outputs) \o GatherWorkerOutputs(Tail(outputs))

----------------------------------------------------------------------------
(* Sort: the comparator of std::sort, lines 1676-1696 *)

DepthItemLess(tbl, buckets, a, b) ==
  LET orderA == tbl[buckets[a.item].entry].order
      orderB == tbl[buckets[b.item].entry].order
      spriteA == buckets[a.item].spriteHandle
      spriteB == buckets[b.item].spriteHandle
      imageA == tbl[buckets[a.item].entry].imageHandle
      imageB == tbl[buckets[b.item].entry].imageHandle
  IN  IF DNotEqual(a.depthKey, b.depthKey) THEN DLess(a.depthKey, b.depthKey)
      ELSE IF DNotEqual(orderA, orderB) THEN DLess(orderA, orderB)
      ELSE IF spriteA # spriteB THEN spriteA < spriteB
      ELSE DLess(imageA, imageB)

\* The comparator is a strict weak ordering of the elements of s, which is
\* what std::sort requires of it.
IsStrictWeakOrder(tbl, buckets, s) ==
  LET E == {s[i] : i \in 1..Len(s)}
      lt(a, b) == DepthItemLess(tbl, buckets, a, b)
      eq(a, b) == ~lt(a, b) /\ ~lt(b, a)
  IN  /\ \A a \in E : ~lt(a, a)
      /\ \A a, b, c \in E : lt(a, b) /\ lt(b, c) => lt(a, c)
      /\ \A a, b, c \in E : eq(a, b) /\ eq(b, c) => eq(a, c)

SeqPermutations(s) ==
  LET n == Len(s)
      P == {p \in [1..n -> 1..n] : \A i, j \in 1..n : i # j => p[i] # p[j]}
  IN  {[i \in 1..n |-> s[p[i]]] : p \in P}

IsSortedBy(tbl, buckets, s) ==
  \A i, j \in 1..Len(s) : i < j => ~DepthItemLess(tbl, buckets, s[j], s[i])

\* What std::sort may leave in depthItems: a permutation sorted by the
\* comparator, the order of equivalent elements unspecified; any
\* permutation when the comparator is no strict weak ordering (undefined
\* behaviour).
SortOutcomes(tbl, buckets, s) ==
  IF IsStrictWeakOrder(tbl, buckets, s)
  THEN {p \in SeqPermutations(s) : IsSortedBy(tbl, buckets, p)}
  ELSE SeqPermutations(s)

----------------------------------------------------------------------------
(* PrepareDraw: prepareDrawSpriteImageInternal and prepareRange *)

\* The record prepareDrawSpriteImageInternal writes at itemBase. src is the
\* index of the item it was made from (not a field of the buffer: it names
\* the record in the properties below).
\* baseProjected of prepareDrawSpriteImageInternal (lines 1745-1755): the
\* precomputed center of the resolved origin item (its projected point
\* when none was computed), else the item's own projected point
BaseProjected(tbl, buckets, item) ==
  LET reference == resolveOriginBucketItem(tbl, buckets, item)
  IN  IF /\ hasOriginLocation(tbl[buckets[item].entry])
         /\ reference # 0
         /\ buckets[reference].resource # 0
      THEN [point |-> IF buckets[reference].hasResolvedAnchorCenter
                      THEN "center" ELSE "projected",
            of |-> reference]
      ELSE [point |-> "projected", of |-> item]

\* The position a record's geometry is built from. A billboard is placed
\* at baseProjected. A surface is placed at baseLngLat (lines 1799-1807):
\* the sprite's own location with its altitude, or, whenever the entry
\* has an origin location and unprojectSpritePoint succeeds, baseProjected
\* taken back to a longitude and latitude at altitude 0.
RecordBase(tbl, buckets, f, item) ==
  LET entry == tbl[buckets[item].entry]
      baseProjected == BaseProjected(tbl, buckets, item)
  IN  IF ~isSurface(entry)
      THEN [kind |-> "screen", point |-> baseProjected.point,
            of |-> baseProjected.of]
      ELSE IF hasOriginLocation(entry) /\ f.unprojectOk
      THEN [kind |-> "unprojected", point |-> baseProjected.point,
            of |-> baseProjected.of]
      ELSE [kind |-> "spriteLocation", point |-> "none", of |-> item]

ResultRecord(tbl, res, buckets, f, depth) ==
  LET b == buckets[depth.item]
      entry == tbl[b.entry]
  IN  [src |-> depth.item,
       spriteHandle |-> entry.spriteHandle,
       resourceIndex |-> res[b.resource].handle,
       opacity |-> entry.opacity,
       useShaderSurface |->
         isSurface(entry) /\ f.useShaderSurfaceGeometry
           /\ clipContextAvailable(f),
       base |-> RecordBase(tbl, buckets, f, depth.item)]

NoBase == [kind |-> "none", point |-> "none", of |-> 0]

ZeroRecord == [src |-> 0, spriteHandle |-> D(0), resourceIndex |-> 0,
               opacity |-> D(0), useShaderSurface |-> FALSE, base |-> NoBase]

\* A prepareDrawSpriteImageInternal without the guard of lines 1794-1797
prepareDrawUnguarded(tbl, res, buckets, f, depth) ==
  LET b == buckets[depth.item]
      entry == tbl[b.entry]
      fail == [ok |-> FALSE, hitTest |-> FALSE, surfaceInputs |-> FALSE]
  IN  IF b.resource = 0 THEN fail
      ELSE IF ~b.projectedValid \/ ~res[b.resource].sizePositive THEN fail
      ELSE IF ~b.hasEffectivePixelsPerMeter THEN fail
      ELSE IF isSurface(entry) /\ ~depth.hasSurfaceData THEN fail
      ELSE [ok |-> TRUE, hitTest |-> TRUE, surfaceInputs |-> FALSE]

\* The projection computeImageCenter lets calculateSurfaceCenterPosition
\* use (lines 1271-1272, 2260-2265): through clip space under a clip
\* context, projectSpritePoint without one
surfaceCenterProjection(f) ==
  IF clipContextAvailable(f) THEN "projectLngLatToClip"
  ELSE "projectSpritePoint"

\* prepareDrawSpriteImageInternal: its return value and the two flags
prepareDrawSpriteImageInternal(tbl, res, buckets, f, depth) ==
  LET b == buckets[depth.item]
      entry == tbl[b.entry]
      fail == [ok |-> FALSE, hitTest |-> FALSE, surfaceInputs |-> FALSE]
  IN  IF b.resource = 0 THEN fail
      ELSE IF ~b.projectedValid \/ ~res[b.resource].sizePositive THEN fail
      ELSE IF ~b.hasEffectivePixelsPerMeter THEN fail
      ELSE IF isSurface(entry)
      THEN IF ~clipContextAvailable(f) THEN fail
           ELSE IF ~entry.surfaceCenterOk THEN fail
           ELSE IF ~depth.hasSurfaceData THEN fail
           ELSE IF ~entry.cornersOk THEN fail
           ELSE [ok |-> TRUE, hitTest |-> TRUE,
                 surfaceInputs |-> f.useShaderSurfaceGeometry
                                     /\ clipContextAvailable(f)]
      ELSE [ok |-> TRUE, hitTest |-> TRUE, surfaceInputs |-> FALSE]

\* The state prepareRange works on
StageOf(staged, prepared, hit, surface) ==
  [stagedResults |-> staged, preparedFlags |-> prepared,
   hitTestFlags |-> hit, surfaceFlags |-> surface]

\* The body of the loop of prepareRange for idx (1-based, depth order)
prepareItem(tbl, res, buckets, f, sorted, st, idx) ==
  LET r == prepareDrawSpriteImageInternal(tbl, res, buckets, f, sorted[idx])
  IN  IF ~r.ok THEN st
      ELSE [stagedResults |->
              [st.stagedResults EXCEPT
                 ![idx] = ResultRecord(tbl, res, buckets, f, sorted[idx])],
            preparedFlags |-> [st.preparedFlags EXCEPT ![idx] = 1],
            hitTestFlags |->
              IF r.hitTest THEN [st.hitTestFlags EXCEPT ![idx] = 1]
              ELSE st.hitTestFlags,
            surfaceFlags |->
              IF r.surfaceInputs THEN [st.surfaceFlags EXCEPT ![idx] = 1]
              ELSE st.surfaceFlags]

\* prepareRange(start, end) run to its end: 0-based half-open range
RECURSIVE prepareRange(_, _, _, _, _, _, _, _)
prepareRange(tbl, res, buckets, f, sorted, st, start, end) ==
  IF start >= Min(end, Len(sorted)) THEN st
  ELSE prepareRange(tbl, res, buckets, f, sorted,
                    prepareItem(tbl, res, buckets, f, sorted, st, start + 1),
                    start + 1, end)

PrepareAccesses(tbl, res, buckets, f, sorted, idx, worker) ==
  LET depth == sorted[idx]
      b == buckets[depth.item]
      entry == tbl[b.entry]
      r == prepareDrawSpriteImageInternal(tbl, res, buckets, f, depth)
      reference == resolveOriginBucketItem(tbl, buckets, depth.item)
      rd(loc) == [w |-> worker, loc |-> loc, wr |-> FALSE]
      wrt(loc) == [w |-> worker, loc |-> loc, wr |-> TRUE]
      own == {rd(<<"depthItems", idx, "item">>)} \cup
             {rd(<<"bucketItems", depth.item, g>>) : g \in {"entry", "eppm"}}
      ref == IF /\ b.resource # 0
                /\ b.projectedValid
                /\ res[b.resource].sizePositive
                /\ b.hasEffectivePixelsPerMeter
                /\ hasOriginLocation(entry)
                /\ reference # 0
             THEN {rd(<<"bucketItems", reference, g>>) :
                     g \in {"entry", "center"}}
             ELSE {}
      out == IF r.ok
             THEN {wrt(<<"stagedResults", idx, "record">>),
                   wrt(<<"preparedFlags", idx, "flag">>)}
                  \cup (IF r.hitTest
                        THEN {wrt(<<"hitTestFlags", idx, "flag">>)} ELSE {})
                  \cup (IF r.surfaceInputs
                        THEN {wrt(<<"surfaceFlags", idx, "flag">>)} ELSE {})
             ELSE {}
  IN  own \cup ref \cup out

----------------------------------------------------------------------------
(* Pack: lines 2939-2964 *)

\* A copy loop that does not look at preparedFlags
RECURSIVE PackLoopAll(_, _, _, _)
PackLoopAll(st, itemCount, idx, p) ==
  IF idx > Len(st.preparedFlags) THEN p
  ELSE IF p.preparedCount >= itemCount THEN p
  ELSE PackLoopAll(st, itemCount, idx + 1,
         [slots |-> [p.slots EXCEPT
                       ![p.preparedCount + 1] = st.stagedResults[idx]],
          preparedCount |-> p.preparedCount + 1,
          hasHitTest |-> p.hasHitTest \/ st.hitTestFlags[idx] # 0,
          hasSurfaceInputs |->
            p.hasSurfaceInputs \/ st.surfaceFlags[idx] # 0])

\* The copy loop from depth index idx (1-based) on: the slots and flags
\* after it. p is [slots, preparedCount, hasHitTest, hasSurfaceInputs].
RECURSIVE PackLoop(_, _, _, _)
PackLoop(st, itemCount, idx, p) ==
  IF idx > Len(st.preparedFlags) THEN p
  ELSE IF p.preparedCount >= itemCount THEN p
  ELSE IF st.preparedFlags[idx] = 0 THEN PackLoop(st, itemCount, idx + 1, p)
  ELSE PackLoop(st, itemCount, idx + 1,
         [slots |-> [p.slots EXCEPT
                       ![p.preparedCount + 1] = st.stagedResults[idx]],
          preparedCount |-> p.preparedCount + 1,
          hasHitTest |-> p.hasHitTest \/ st.hitTestFlags[idx] # 0,
          hasSurfaceInputs |->
            p.hasSurfaceInputs \/ st.surfaceFlags[idx] # 0])

\* The two flag bits exchanged
PackFlagsSwapped(p) ==
  (IF p.hasHitTest THEN RESULT_FLAG_HAS_SURFACE_INPUTS ELSE 0)
  + (IF p.hasSurfaceInputs THEN RESULT_FLAG_HAS_HIT_TEST ELSE 0)

PackFlags(p) ==
  (IF p.hasHitTest THEN RESULT_FLAG_HAS_HIT_TEST ELSE 0)
  + (IF p.hasSurfaceInputs THEN RESULT_FLAG_HAS_SURFACE_INPUTS ELSE 0)

----------------------------------------------------------------------------
(* Inputs *)

ResReady == [sizePositive |-> TRUE, textureReady |-> TRUE]
ResNotReady == [sizePositive |-> TRUE, textureReady |-> FALSE]
ResEmpty == [sizePositive |-> FALSE, textureReady |-> TRUE]
ResourceList == <<ResReady, ResNotReady, ResEmpty>>
ResTableOf(n) == [i \in 1..n |-> ResourceList[i]]

\* A billboard of sprite 1 on the ready resource, every step succeeding
BaseItem ==
  [spriteHandle |-> D(1), resourceHandle |-> D(0),
   originTargetIndex |-> D(-1), originSubLayer |-> D(-1),
   originOrder |-> D(-1), subLayer |-> D(0), mode |-> 1,
   order |-> D(0), imageHandle |-> D(0), opacity |-> D(1),
   projOk |-> TRUE, eppmOk |-> TRUE, clipOk |-> TRUE, ndcZ |-> D(0),
   surfaceCenterOk |-> TRUE, cornersOk |-> TRUE]

\* The same four sort keys as BaseItem, another opacity
TwinItem == [BaseItem EXCEPT !.opacity = Fin(1)]
\* order is NaN
NaNOrderItem == [BaseItem EXCEPT !.order = NaN, !.imageHandle = D(1)]
\* A surface item nearer to the camera whose origin is item 0
SurfaceItem ==
  [BaseItem EXCEPT !.mode = 0, !.originTargetIndex = D(0),
                   !.ndcZ = D(1), !.order = D(1)]
\* Its depth key is not finite
NaNDepthItem == [BaseItem EXCEPT !.ndcZ = NaN, !.spriteHandle = D(2)]
\* On the resource of size 0: preparation fails
EmptyItem ==
  [BaseItem EXCEPT !.resourceHandle = D(2), !.ndcZ = D(-1),
                   !.spriteHandle = Fin(5)]

ItemDomain ==
  {BaseItem, TwinItem, NaNOrderItem, SurfaceItem, NaNDepthItem, EmptyItem}

DecodeItemDomain == {BaseItem, SurfaceItem}

\* unprojectOk: unprojectSpritePoint succeeds (the inverse pixel matrix is
\* there and usable)
FrameClip ==
  [drawingBufferPositive |-> TRUE, pixelRatioUsable |-> TRUE,
   useShaderSurfaceGeometry |-> TRUE, unprojectOk |-> TRUE]
FrameNoClip ==
  [drawingBufferPositive |-> FALSE, pixelRatioUsable |-> TRUE,
   useShaderSurfaceGeometry |-> FALSE, unprojectOk |-> TRUE]
FrameNoInverse == [FrameClip EXCEPT !.unprojectOk = FALSE]
FrameDomain == {FrameClip, FrameNoClip}

\* The header of a buffer laid out without gaps: header, frame constants,
\* matrices, r resources, s sprites, n items.
LayoutHeader(r, s, n) ==
  LET matrixOffset == INPUT_HEADER_LENGTH + INPUT_FRAME_CONSTANT_LENGTH
      resourceOffset == matrixOffset + INPUT_MATRIX_LENGTH
      spriteOffset == resourceOffset + r * RESOURCE_STRIDE
      itemOffset == spriteOffset + s * SPRITE_STRIDE
  IN  [totalLength |-> D(itemOffset + n * ITEM_STRIDE),
       frameConstCount |-> D(INPUT_FRAME_CONSTANT_LENGTH),
       matrixOffset |-> D(matrixOffset),
       resourceCount |-> D(r), resourceOffset |-> D(resourceOffset),
       spriteCount |-> D(s), spriteOffset |-> D(spriteOffset),
       itemCount |-> D(n), itemOffset |-> D(itemOffset)]

\* Smallest counts whose product with the stride passes 2^32 - 1: one more
\* than (2^32 - 1) divided by 9, 6 and 27
WrapResourceCount == 477218588 + 1
WrapSpriteCount == 715827882 + 1
WrapItemCount == 159072862 + 1

DecodeMaxItems == 2

\* Headers around the layout of one resource and DecodeMaxItems items
DecodeHeaderDomain ==
  LET base == LayoutHeader(1, 0, DecodeMaxItems)
      end == FloorPlusHalf(base.totalLength.h)
      ro == FloorPlusHalf(base.resourceOffset.h)
      io == FloorPlusHalf(base.itemOffset.h)
  IN  [totalLength : {NaN, Huge, D(-1), D(INPUT_HEADER_LENGTH - 1),
                      D(io), D(end - ITEM_STRIDE), D(end), Fin(2 * end - 1)},
       frameConstCount : {D(INPUT_FRAME_CONSTANT_LENGTH),
                          D(INPUT_FRAME_CONSTANT_LENGTH - 1),
                          Fin(2 * INPUT_FRAME_CONSTANT_LENGTH - 1)},
       matrixOffset : {base.matrixOffset, D(end - INPUT_MATRIX_LENGTH + 1),
                       NaN},
       resourceCount : {D(0), D(1), D(WrapResourceCount)},
       resourceOffset : {D(ro), D(end + 1)},
       spriteCount : {D(0), D(WrapSpriteCount)},
       spriteOffset : {D(ro)},
       itemCount : {D(n) : n \in 0..DecodeMaxItems} \cup {D(WrapItemCount)},
       itemOffset : {D(ro), D(io), Fin(2 * io - 1), D(end - ITEM_STRIDE + 1)}]

\* The tables a buffer with header h holds: as many records as the header
\* declares when Decode accepts it and they fit in memory, and nothing
\* that is read otherwise.
TablesOf(h, items) ==
  LET dec == DecodeHeader(h)
  IN  IF dec.ok /\ VectorsFit(dec) /\ dec.resourceCount <= Len(ResourceList)
      THEN {[res |-> ResTableOf(dec.resourceCount), items |-> t] :
              t \in [1..dec.itemCount -> items]}
      ELSE {[res |-> <<>>, items |-> <<>>]}

StaleRecord == [src |-> -1, spriteHandle |-> D(-1), resourceIndex |-> -1,
                opacity |-> D(-1), useShaderSurface |-> FALSE,
                base |-> NoBase]

\* The host's output buffer has room for one record per item (and is never
\* empty)
\* One call of a surface geometry helper for an item (1-based) in a stage
GeometryCall(stageName, item, helper) ==
  [stage |-> stageName, item |-> item, fn |-> helper]

\* The items computeImageCenter is called on when called on cur: cur and
\* the items of its origin chain (lines 1210-1224)
RECURSIVE CenterChain(_, _, _, _)
CenterChain(tbl, buckets, cur, fuel) ==
  LET next == OriginStep(tbl, buckets, cur)
  IN  IF next = 0 \/ fuel = 0 THEN {cur}
      ELSE {cur} \cup CenterChain(tbl, buckets, next, fuel - 1)

\* Precompute: computeImageCenter of a surface item with a resource of
\* positive size calls calculateSurfaceCenterPosition (line 1279), which
\* computes world dimensions and offset meters (lines 2286 and 2305)
PrecomputeGeometry(tbl, res, buckets) ==
  {GeometryCall("Precompute", j, helper) :
     j \in {j \in UNION {CenterChain(tbl, buckets, i, Len(buckets)) :
                           i \in {i \in 1..Len(buckets) :
                                    PrecomputeVisits(tbl, buckets[i])}} :
              /\ isSurface(tbl[buckets[j].entry])
              /\ res[buckets[j].resource].sizePositive},
     helper \in {"calculateSurfaceWorldDimensions",
                 "calculateSurfaceOffsetMeters"}}

\* DepthCollect: a surface item past the guards has its world dimensions,
\* offset meters and corner displacements computed (lines 1493-1513)
DepthGeometry(tbl, res, buckets, idx) ==
  IF processDepthItem(tbl, res, buckets, idx).reached
       /\ isSurface(tbl[buckets[idx].entry])
  THEN {GeometryCall("DepthCollect", idx, helper) :
          helper \in {"calculateSurfaceWorldDimensions",
                      "calculateSurfaceOffsetMeters",
                      "calculateSurfaceCornerDisplacements"}}
  ELSE {}

\* PrepareDraw: a surface item under a clip context calls
\* calculateSurfaceCenterPosition (line 1833); one with a center and cached
\* surface data calls prepareSurfaceShaderInputs (line 1854), whose
\* computeSurfaceCornerShaderModel computes the corner displacements again
\* (lines 1169 and 2234)
PrepareGeometry(tbl, res, buckets, f, depth) ==
  LET b == buckets[depth.item]
      entry == tbl[b.entry]
      center == /\ b.resource # 0
                /\ b.projectedValid
                /\ res[b.resource].sizePositive
                /\ b.hasEffectivePixelsPerMeter
                /\ isSurface(entry)
                /\ clipContextAvailable(f)
  IN  {GeometryCall("PrepareDraw", depth.item, helper) :
         helper \in IF ~center THEN {}
                    ELSE IF entry.surfaceCenterOk /\ depth.hasSurfaceData
                    THEN {"calculateSurfaceWorldDimensions",
                          "calculateSurfaceOffsetMeters",
                          "calculateSurfaceCornerDisplacements"}
                    ELSE {"calculateSurfaceWorldDimensions",
                          "calculateSurfaceOffsetMeters"}}

OutCapacity(items) == IF Len(items) = 0 THEN 1 ELSE Len(items)

PipeStart(h, f, t) ==
  /\ hdr = h
  /\ frame = f
  /\ resTable = t.res
  /\ itemTable = t.items
  /\ pc = "start"
  /\ ret = FALSE
  /\ outHeader = StaleHeader
  /\ outSlots = [i \in 1..OutCapacity(t.items) |-> StaleRecord]
  /\ resources = <<>>
  /\ bucketItems = <<>>
  /\ depthWorkerCount = 0
  /\ depthSpawned = 0
  /\ depthWorkers = <<>>
  /\ workerOutputs = <<>>
  /\ depthItems = <<>>
  /\ prepWorkerCount = 0
  /\ prepSpawned = 0
  /\ prepWorkers = <<>>
  /\ stagedResults = <<>>
  /\ preparedFlags = <<>>
  /\ hitTestFlags = <<>>
  /\ surfaceFlags = <<>>
  /\ acc = {}
  /\ stage = <<>>
  /\ geometryCalls = {}

\* No helper function has been evaluated on its own
FnIdle ==
  /\ fn = "none"
  /\ fnArgs = <<>>
  /\ fnOut = <<>>

\* No override, hardware concurrency unknown (4 is assumed), no history
EnvIdle ==
  /\ g_threadPoolLimit = NoLimit
  /\ headerPoolLimit = NoLimit
  /\ hardwareConcurrency = 0
  /\ lastPoolArg = [k |-> "none", h |-> 0]
  /\ wcPhase = "none"
  /\ wcTotal = 0
  /\ wcCount = 0
  /\ calls = <<>>
  /\ sortMemo = {}
  /\ FnIdle

JobsIdle ==
  /\ jobN = 0
  /\ jobW = 0
  /\ jobPc = "idle"
  /\ jobSpawned = 0
  /\ jobWorkers = <<>>
  /\ jobHits = <<>>

\* Well-formed buffers of up to MaxItems items
Init ==
  /\ \E n \in 0..MaxItems, f \in FrameDomain :
       \E t \in TablesOf(LayoutHeader(Len(ResourceList), 0, n), ItemDomain) :
         PipeStart(LayoutHeader(Len(ResourceList), 0, n), f, t)
  /\ JobsIdle
  /\ EnvIdle

\* Arbitrary headers
InitDecode ==
  /\ \E h \in DecodeHeaderDomain :
       \E t \in TablesOf(h, DecodeItemDomain) : PipeStart(h, FrameClip, t)
  /\ JobsIdle
  /\ EnvIdle

----------------------------------------------------------------------------
(* prepareDrawSpriteImages, stage by stage *)

ZeroFlags(n) == [i \in 1..n |-> 0]

\* Lines 2694-2858, called with two buffers (no null pointer): reset the
\* result header, validate the input header, build the resource and
\* bucket vectors.
Decode ==
  /\ pc = "start"
  /\ outHeader' = initializeResultHeader
  /\ stage' = Append(stage, "Decode")
  /\ LET dec == DecodeHeader(hdr)
     IN  IF ~dec.ok
         THEN /\ ret' = FALSE
              /\ pc' = "done"
              /\ UNCHANGED decVars
         ELSE IF ~VectorsFit(dec)
         THEN /\ pc' = "trap"
              /\ UNCHANGED <<ret, decVars>>
         ELSE LET res == [i \in 1..dec.resourceCount |->
                            DecodeResource(resTable[i], i)]
              IN  /\ resources' = res
                  /\ bucketItems' = [i \in 1..dec.itemCount |->
                                       DecodeBucketItem(itemTable, res, i)]
                  /\ pc' = "precompute"
                  /\ UNCHANGED ret
  /\ UNCHANGED <<inVars, outSlots, depthVars, depthItems, prepVars,
                 stageVars, acc, jobVars, envVars, histVars>>

\* Lines 2860-2863. A cyclic origin chain never lets computeImageCenter
\* return: the stack runs out and the call ends without a return value.
Precompute ==
  /\ pc = "precompute"
  /\ stage' = Append(stage, "Precompute")
  /\ IF PrecomputeReturns(itemTable, bucketItems)
     THEN /\ bucketItems' = precomputeBucketCenters(itemTable, bucketItems)
          /\ pc' = "depth"
     ELSE /\ pc' = "trap"
          /\ UNCHANGED bucketItems
  /\ geometryCalls' = geometryCalls
                        \cup PrecomputeGeometry(itemTable, resources,
                                                bucketItems)
  /\ UNCHANGED <<inVars, ret, outVars, resources, depthVars, depthItems,
                 prepVars, stageVars, acc, jobVars, envVars>>

\* collectDepthSortedItemsInternal with workerCount <= 1 (line 1635)
DepthInline ==
  /\ pc = "depth"
  /\ LET r == processDepthRange(itemTable, resources, bucketItems,
                                0, Len(bucketItems))
     IN  /\ depthItems' = r.items
         /\ bucketItems' = r.buckets
  /\ depthWorkerCount' = 1
  /\ pc' = "sort"
  /\ stage' = Append(stage, "DepthCollect")
  /\ geometryCalls' =
       geometryCalls
         \cup UNION {DepthGeometry(itemTable, resources, bucketItems, idx) :
                       idx \in 1..Len(bucketItems)}
  /\ UNCHANGED <<inVars, ret, outVars, resources, depthSpawned, depthWorkers,
                 workerOutputs, prepVars, stageVars, acc, jobVars, envVars>>

\* workerCount = k > 1: the worker vectors are allocated (line 1639).
\* determineDepthWorkerCount gives more than one worker from 512 items on;
\* the model lets any count up to MaxWorkers be chosen for any table.
DepthDispatch(k) ==
  /\ pc = "depth"
  /\ k > 1
  /\ WorkerCountAllowed(k)
  /\ depthWorkerCount' = k
  /\ workerOutputs' = [i \in 1..k |-> <<>>]
  /\ depthSpawned' = 0
  /\ depthWorkers' = <<>>
  /\ acc' = {}
  /\ pc' = "depthRun"
  /\ stage' = Append(stage, "DepthCollect")
  /\ UNCHANGED <<inVars, ret, outVars, decVars, depthItems, prepVars,
                 stageVars, jobVars, envVars, histVars>>

\* One iteration of the spawn loop, lines 1646-1657
DepthSpawn ==
  /\ pc = "depthRun"
  /\ ~SpawnLoopEnded(depthSpawned, Len(bucketItems), depthWorkerCount)
  /\ depthWorkers' = Append(depthWorkers,
       [workerIndex |-> depthSpawned,
        start |-> RangeStart(depthSpawned, Len(bucketItems), depthWorkerCount),
        end |-> RangeEnd(depthSpawned, Len(bucketItems), depthWorkerCount),
        next |-> RangeStart(depthSpawned, Len(bucketItems), depthWorkerCount)])
  /\ depthSpawned' = depthSpawned + 1
  /\ UNCHANGED <<inVars, pc, ret, outVars, decVars, depthWorkerCount,
                 workerOutputs, depthItems, prepVars, stageVars, acc, stage,
                 jobVars, envVars, histVars>>

\* One iteration of the loop of processDepthRange in worker w
DepthWorkerStep(w) ==
  /\ pc = "depthRun"
  /\ w \in 1..Len(depthWorkers)
  /\ depthWorkers[w].next < Min(depthWorkers[w].end, Len(bucketItems))
  /\ LET idx == depthWorkers[w].next + 1
         out == depthWorkers[w].workerIndex + 1
         r == processDepthItem(itemTable, resources, bucketItems, idx)
     IN  /\ bucketItems' = [bucketItems EXCEPT ![idx] = r.bucket]
         /\ workerOutputs' =
              [workerOutputs EXCEPT
                 ![out] = IF r.push THEN Append(@, r.item) ELSE @]
         /\ acc' = acc \cup DepthAccesses(itemTable, resources, bucketItems,
                                          idx, out)
         /\ geometryCalls' =
              geometryCalls
                \cup DepthGeometry(itemTable, resources, bucketItems, idx)
  /\ depthWorkers' = [depthWorkers EXCEPT ![w].next = @ + 1]
  /\ UNCHANGED <<inVars, pc, ret, outVars, resources, depthWorkerCount,
                 depthSpawned, depthItems, prepVars, stageVars, stage,
                 jobVars, envVars>>

\* A join loop that does not wait for its threads
JoinSkipped == TRUE

DepthWorkersFinished ==
  \A w \in 1..Len(depthWorkers) :
    depthWorkers[w].next >= Min(depthWorkers[w].end, Len(bucketItems))

\* The join loop and the gather, lines 1659-1670
DepthJoin ==
  /\ pc = "depthRun"
  /\ SpawnLoopEnded(depthSpawned, Len(bucketItems), depthWorkerCount)
  /\ DepthWorkersFinished
  /\ depthItems' = GatherWorkerOutputs(workerOutputs)
  /\ pc' = "sort"
  /\ UNCHANGED <<inVars, ret, outVars, decVars, depthVars, prepVars,
                 stageVars, acc, stage, jobVars, envVars, histVars>>

\* std::sort is one algorithm: while the comparator is a strict weak
\* ordering, the same sequence of the same records comes out in the same
\* order every time, equal keys included. Without one its behaviour is
\* undefined and nothing ties a later outcome to an earlier one.
SortRepeats(sorted) ==
  IsStrictWeakOrder(itemTable, bucketItems, depthItems)
    => \A m \in sortMemo :
         (m.entries = itemTable /\ m.given = depthItems) => m.sorted = sorted

\* std::sort of line 1676, then the staging vectors of lines 2872-2876
Sort ==
  /\ pc = "sort"
  /\ \E sorted \in SortOutcomes(itemTable, bucketItems, depthItems) :
       /\ SortRepeats(sorted)
       /\ depthItems' = sorted
       /\ sortMemo' = sortMemo \cup {[entries |-> itemTable,
                                       given |-> depthItems,
                                       sorted |-> sorted]}
  /\ stagedResults' = [i \in 1..Len(depthItems) |-> ZeroRecord]
  /\ preparedFlags' = ZeroFlags(Len(depthItems))
  /\ hitTestFlags' = ZeroFlags(Len(depthItems))
  /\ surfaceFlags' = ZeroFlags(Len(depthItems))
  /\ pc' = "prepare"
  /\ stage' = Append(stage, "Sort")
  /\ UNCHANGED <<inVars, ret, outVars, decVars, depthVars, prepVars, acc,
                 jobVars, poolVars, poolHist, countVars, calls, fnVars,
                 histVars>>

CurrentStage == StageOf(stagedResults, preparedFlags, hitTestFlags,
                        surfaceFlags)

SetStage(st) ==
  /\ stagedResults' = st.stagedResults
  /\ preparedFlags' = st.preparedFlags
  /\ hitTestFlags' = st.hitTestFlags
  /\ surfaceFlags' = st.surfaceFlags

\* prepareWorkerCount <= 1 or depthCount == 0 (line 2912)
PrepareInline ==
  /\ pc = "prepare"
  /\ SetStage(prepareRange(itemTable, resources, bucketItems, frame,
                           depthItems, CurrentStage, 0, Len(depthItems)))
  /\ prepWorkerCount' = 1
  /\ pc' = "pack"
  /\ stage' = Append(stage, "PrepareDraw")
  /\ geometryCalls' =
       geometryCalls
         \cup UNION {PrepareGeometry(itemTable, resources, bucketItems, frame,
                                     depthItems[idx]) :
                       idx \in 1..Len(depthItems)}
  /\ UNCHANGED <<inVars, ret, outVars, decVars, depthVars, depthItems,
                 prepSpawned, prepWorkers, acc, jobVars, envVars>>

\* prepareWorkerCount = k > 1 and depthCount > 0 (line 2914). As in
\* DepthDispatch, any count up to MaxWorkers may be chosen.
PrepareDispatch(k) ==
  /\ pc = "prepare"
  /\ k > 1
  /\ WorkerCountAllowed(k)
  /\ Len(depthItems) > 0
  /\ prepWorkerCount' = k
  /\ prepSpawned' = 0
  /\ prepWorkers' = <<>>
  /\ acc' = {}
  /\ pc' = "prepareRun"
  /\ stage' = Append(stage, "PrepareDraw")
  /\ UNCHANGED <<inVars, ret, outVars, decVars, depthVars, depthItems,
                 stageVars, jobVars, envVars, histVars>>

\* One iteration of the spawn loop, lines 2920-2928
PrepareSpawn ==
  /\ pc = "prepareRun"
  /\ ~SpawnLoopEnded(prepSpawned, Len(depthItems), prepWorkerCount)
  /\ prepWorkers' = Append(prepWorkers,
       [workerIndex |-> prepSpawned,
        start |-> RangeStart(prepSpawned, Len(depthItems), prepWorkerCount),
        end |-> RangeEnd(prepSpawned, Len(depthItems), prepWorkerCount),
        next |-> RangeStart(prepSpawned, Len(depthItems), prepWorkerCount)])
  /\ prepSpawned' = prepSpawned + 1
  /\ UNCHANGED <<inVars, pc, ret, outVars, decVars, depthVars, depthItems,
                 prepWorkerCount, stageVars, acc, stage, jobVars, envVars, histVars>>

\* One iteration of the loop of prepareRange in worker w
PrepareWorkerStep(w) ==
  /\ pc = "prepareRun"
  /\ w \in 1..Len(prepWorkers)
  /\ prepWorkers[w].next < Min(prepWorkers[w].end, Len(depthItems))
  /\ LET idx == prepWorkers[w].next + 1
     IN  /\ SetStage(prepareItem(itemTable, resources, bucketItems, frame,
                                 depthItems, CurrentStage, idx))
         /\ acc' = acc \cup PrepareAccesses(itemTable, resources, bucketItems,
                                            frame, depthItems, idx,
                                            prepWorkers[w].workerIndex + 1)
         /\ geometryCalls' =
              geometryCalls
                \cup PrepareGeometry(itemTable, resources, bucketItems, frame,
                                     depthItems[idx])
  /\ prepWorkers' = [prepWorkers EXCEPT ![w].next = @ + 1]
  /\ UNCHANGED <<inVars, pc, ret, outVars, decVars, depthVars, depthItems,
                 prepWorkerCount, prepSpawned, stage, jobVars, envVars>>

PrepareWorkersFinished ==
  \A w \in 1..Len(prepWorkers) :
    prepWorkers[w].next >= Min(prepWorkers[w].end, Len(depthItems))

\* The join loop, lines 2929-2933
PrepareJoin ==
  /\ pc = "prepareRun"
  /\ SpawnLoopEnded(prepSpawned, Len(depthItems), prepWorkerCount)
  /\ PrepareWorkersFinished
  /\ pc' = "pack"
  /\ UNCHANGED <<inVars, ret, outVars, decVars, depthVars, depthItems,
                 prepVars, stageVars, acc, stage, jobVars, envVars, histVars>>

\* What Pack leaves in the output buffer for the staged state st
PackResult(st, itemCount, slots) ==
  PackLoop(st, itemCount, 1,
           [slots |-> slots, preparedCount |-> 0, hasHitTest |-> FALSE,
            hasSurfaceInputs |-> FALSE])

PackHeader(header, p) ==
  [header EXCEPT !.preparedCount = p.preparedCount, !.flags = PackFlags(p)]

\* Lines 2939-2966
Pack ==
  /\ pc = "pack"
  /\ LET p == PackResult(CurrentStage, Len(bucketItems), outSlots)
     IN  /\ outSlots' = p.slots
         /\ outHeader' = PackHeader(outHeader, p)
  /\ ret' = TRUE
  /\ pc' = "done"
  /\ stage' = Append(stage, "Pack")
  /\ UNCHANGED <<inVars, decVars, depthVars, depthItems, prepVars, stageVars,
                 acc, jobVars, envVars, histVars>>

Next ==
  \/ Decode
  \/ Precompute
  \/ DepthInline
  \/ \E k \in 2..MaxWorkers : DepthDispatch(k)
  \/ DepthSpawn
  \/ \E w \in 1..MaxWorkers : DepthWorkerStep(w)
  \/ DepthJoin
  \/ Sort
  \/ PrepareInline
  \/ \E k \in 2..MaxWorkers : PrepareDispatch(k)
  \/ PrepareSpawn
  \/ \E w \in 1..MaxWorkers : PrepareWorkerStep(w)
  \/ PrepareJoin
  \/ Pack

Spec == Init /\ [][Next]_vars

SpecDecode == InitDecode /\ [][Next]_vars

----------------------------------------------------------------------------
(* runWorkerJobs, worker_jobs.h lines 87-123 *)

\* runWorkerJobs beside a prepareDrawSpriteImages call on billboards
InitJobs ==
  /\ \E n \in 0..MaxItems :
       \E t \in TablesOf(LayoutHeader(Len(ResourceList), 0, n), {BaseItem}) :
         PipeStart(LayoutHeader(Len(ResourceList), 0, n), FrameClip, t)
  /\ jobN \in 0..MaxJobItems
  /\ jobW \in 0..MaxJobWorkers
  /\ jobPc = "entry"
  /\ jobSpawned = 0
  /\ jobWorkers = <<>>
  /\ jobHits = [i \in 1..jobN |-> 0]
  /\ EnvIdle

\* job(start, end, workerIndex) touches the indices of [start, end)
JobTouch(hits, start, end) ==
  [i \in 1..Len(hits) |->
     IF start < i /\ i <= end THEN hits[i] + 1 ELSE hits[i]]

\* workerCount <= 1 || totalItems == 0: job(0, totalItems, 0) inline
JobInline ==
  /\ jobPc = "entry"
  /\ jobW <= 1 \/ jobN = 0
  /\ jobHits' = JobTouch(jobHits, 0, jobN)
  /\ jobPc' = "done"
  /\ UNCHANGED <<pipeVars, envVars, histVars, jobN, jobW, jobSpawned, jobWorkers>>

JobSpawn ==
  /\ jobPc \in {"entry", "spawn"}
  /\ ~(jobW <= 1 \/ jobN = 0)
  /\ IF SpawnLoopEnded(jobSpawned, jobN, jobW)
     THEN /\ jobPc' = "join"
          /\ UNCHANGED <<jobSpawned, jobWorkers>>
     ELSE /\ jobWorkers' = Append(jobWorkers,
               [workerIndex |-> jobSpawned,
                start |-> RangeStart(jobSpawned, jobN, jobW),
                end |-> RangeEnd(jobSpawned, jobN, jobW),
                next |-> RangeStart(jobSpawned, jobN, jobW)])
          /\ jobSpawned' = jobSpawned + 1
          /\ jobPc' = "spawn"
  /\ UNCHANGED <<pipeVars, envVars, histVars, jobN, jobW, jobHits>>

\* Worker w's job handles its next index
JobWorkerStep(w) ==
  /\ jobPc \in {"spawn", "join"}
  /\ w \in 1..Len(jobWorkers)
  /\ jobWorkers[w].next < jobWorkers[w].end
  /\ jobHits' = JobTouch(jobHits, jobWorkers[w].next, jobWorkers[w].next + 1)
  /\ jobWorkers' = [jobWorkers EXCEPT ![w].next = @ + 1]
  /\ UNCHANGED <<pipeVars, envVars, histVars, jobN, jobW, jobPc, jobSpawned>>

\* The join loop has joined every worker
JobJoin ==
  /\ jobPc = "join"
  /\ \A w \in 1..Len(jobWorkers) : jobWorkers[w].next >= jobWorkers[w].end
  /\ jobPc' = "done"
  /\ UNCHANGED <<pipeVars, envVars, histVars, jobN, jobW, jobSpawned, jobWorkers, jobHits>>

NextJobs ==
  \/ JobInline
  \/ JobSpawn
  \/ \E w \in 1..MaxJobWorkers : JobWorkerStep(w)
  \/ JobJoin

NextAll == Next \/ NextJobs

SpecJobs == InitJobs /\ [][NextAll]_vars

----------------------------------------------------------------------------
(* The worker-count functions on their own *)

MaxHardware == 8
MaxLimit == 8

LimitDomain == {NoLimit, SIZE_MAX} \cup {Limbs(n) : n \in 1..MaxLimit}

\* Item counts on both sides of the thresholds and of slice multiples
TotalItemsDomain ==
  {0, 1, 127, 128, 255, 256, 257, 383, 384, 511, 512, 513, 600, 767, 768,
   769, 1023, 1024, 1025, 2047, 2048, 4096}

InitWorkers ==
  /\ PipeStart(LayoutHeader(Len(ResourceList), 0, 0), FrameClip,
               [res |-> ResTableOf(Len(ResourceList)), items |-> <<>>])
  /\ JobsIdle
  /\ g_threadPoolLimit \in LimitDomain
  /\ headerPoolLimit \in LimitDomain
  /\ hardwareConcurrency \in 0..MaxHardware
  /\ lastPoolArg = [k |-> "none", h |-> 0]
  /\ wcPhase = "none"
  /\ wcTotal = 0
  /\ wcCount = 0
  /\ calls = <<>>
  /\ sortMemo = {}
  /\ FnIdle

Determined(phase, totalItems, count) ==
  /\ wcPhase' = phase
  /\ wcTotal' = totalItems
  /\ wcCount' = count
  /\ UNCHANGED <<pipeVars, jobVars, poolVars, poolHist, calls, sortMemo,
                 fnVars, histVars>>

DetermineDepth(totalItems) ==
  Determined("depth", totalItems, determineDepthWorkerCount(totalItems))

DeterminePrepare(totalItems) ==
  Determined("prepare", totalItems, determinePrepareWorkerCount(totalItems))

DetermineInterpolation(totalItems) ==
  Determined("interpolation", totalItems,
             determineInterpolationWorkerCount(totalItems))

NextWorkers ==
  \E totalItems \in TotalItemsDomain :
    \/ DetermineDepth(totalItems)
    \/ DeterminePrepare(totalItems)
    \/ DetermineInterpolation(totalItems)

SpecWorkers == InitWorkers /\ [][NextWorkers]_vars

----------------------------------------------------------------------------
(* Several invocations of the kernel and setThreadPoolSize calls between   *)
(* them                                                                    *)

MaxPoolItems == 2

\* Arguments of setThreadPoolSize: NaN, -infinity, -1, 0, a value below
\* 0.5, 0.5, 1, 1.5, 2, 3, +infinity, a value of 2^32 or more
PoolArgDomain ==
  {NaN, NegInf, D(-1), D(0), Tiny, Fin(1), D(1), Fin(3), D(2), D(3), Inf,
   Huge}

\* setThreadPoolSize(value), called by the host while no invocation runs
setThreadPoolSize(value) ==
  /\ pc = "start"
  /\ g_threadPoolLimit' \in ThreadPoolLimitAfter(g_threadPoolLimit, value)
  /\ lastPoolArg' = value
  /\ UNCHANGED <<pipeVars, jobVars, headerPoolLimit, hardwareConcurrency,
                 countVars, calls, sortMemo, fnVars, histVars>>

\* What the host reads back of a finished invocation: the return value,
\* the header and the records the header counts
CallRecord ==
  [hdr |-> hdr, frame |-> frame, resTable |-> resTable,
   itemTable |-> itemTable, ret |-> ret, outHeader |-> outHeader,
   records |-> IF ret
               THEN SubSeq(outSlots, 1, outHeader.preparedCount)
               ELSE <<>>]

\* The host invokes the kernel a second time, on buffers it has filled
\* anew; every local of the first invocation is gone.
Invoke(h, f, t) ==
  /\ pc = "done"
  /\ calls = <<>>
  /\ calls' = Append(calls, CallRecord)
  /\ hdr' = h
  /\ frame' = f
  /\ resTable' = t.res
  /\ itemTable' = t.items
  /\ pc' = "start"
  /\ ret' = FALSE
  /\ outHeader' = StaleHeader
  /\ outSlots' = [i \in 1..OutCapacity(t.items) |-> StaleRecord]
  /\ resources' = <<>>
  /\ bucketItems' = <<>>
  /\ depthWorkerCount' = 0
  /\ depthSpawned' = 0
  /\ depthWorkers' = <<>>
  /\ workerOutputs' = <<>>
  /\ depthItems' = <<>>
  /\ prepWorkerCount' = 0
  /\ prepSpawned' = 0
  /\ prepWorkers' = <<>>
  /\ stagedResults' = <<>>
  /\ preparedFlags' = <<>>
  /\ hitTestFlags' = <<>>
  /\ surfaceFlags' = <<>>
  /\ acc' = {}
  /\ stage' = <<>>
  /\ geometryCalls' = {}
  /\ UNCHANGED <<jobVars, poolVars, poolHist, countVars, sortMemo, fnVars>>

InitPool ==
  /\ \E n \in 0..MaxPoolItems :
       \E t \in TablesOf(LayoutHeader(Len(ResourceList), 0, n), {BaseItem}) :
         PipeStart(LayoutHeader(Len(ResourceList), 0, n), FrameClip, t)
  /\ JobsIdle
  /\ g_threadPoolLimit = NoLimit
  /\ headerPoolLimit = NoLimit
  /\ hardwareConcurrency \in 0..MaxWorkers
  /\ lastPoolArg = [k |-> "none", h |-> 0]
  /\ wcPhase = "none"
  /\ wcTotal = 0
  /\ wcCount = 0
  /\ calls = <<>>
  /\ sortMemo = {}
  /\ FnIdle

InvokeAgain ==
  \E n \in 0..MaxPoolItems :
    \E t \in TablesOf(LayoutHeader(Len(ResourceList), 0, n), {BaseItem}) :
      Invoke(LayoutHeader(Len(ResourceList), 0, n), FrameClip, t)

NextPool ==
  \/ Next
  \/ \E value \in PoolArgDomain : setThreadPoolSize(value)
  \/ InvokeAgain

SpecPool == InitPool /\ [][NextPool]_vars

----------------------------------------------------------------------------
(* Invocations on items with origin references *)

MaxOriginItems == 2

\* Of another sprite than BaseItem
ForeignItem == [BaseItem EXCEPT !.spriteHandle = D(2)]

\* Mode m (0 surface, 1 billboard) with an index reference to item t
OriginIndexItem(m, t) ==
  [BaseItem EXCEPT !.mode = m, !.originTargetIndex = D(t), !.order = D(1)]

\* Mode m with the origin given as the pair (sub-layer 0, order 0), which
\* is the sub-layer and order of BaseItem, and no index
OriginPairItem(m) ==
  [BaseItem EXCEPT !.mode = m, !.originSubLayer = D(0),
                   !.originOrder = D(0), !.order = D(1)]

\* References to item 0, to item 1 and to an index outside every table
OriginItemDomain ==
  {BaseItem, ForeignItem}
    \cup {OriginIndexItem(m, t) : m \in {0, 1}, t \in {0, 1, 7}}
    \cup {OriginPairItem(m) : m \in {0, 1}}

InitOrigin ==
  /\ \E n \in 0..MaxOriginItems, f \in {FrameClip, FrameNoInverse} :
       \E t \in TablesOf(LayoutHeader(Len(ResourceList), 0, n),
                         OriginItemDomain) :
         PipeStart(LayoutHeader(Len(ResourceList), 0, n), f, t)
  /\ JobsIdle
  /\ EnvIdle

SpecOrigin == InitOrigin /\ [][Next]_vars

\* Every step of Next changes one of these
progressVars == <<pc, depthSpawned, depthWorkers, prepSpawned, prepWorkers>>

\* The call and its workers keep running: a step that can be taken is
\* taken eventually
SpecOriginFair == InitOrigin /\ [][Next]_vars /\ WF_progressVars(Next)

----------------------------------------------------------------------------
(* Invocations on items that fail one guard each *)

MaxGuardItems == 2

\* On the resource whose texture is not ready
NotReadyItem == [BaseItem EXCEPT !.resourceHandle = D(1)]
\* Its resource handle names no entry of the resource table
NoResourceItem == [BaseItem EXCEPT !.resourceHandle = D(9)]
\* Its resource handle is not a size_t
BadHandleItem == [BaseItem EXCEPT !.resourceHandle = NaN]
\* projectSpritePoint fails for its location
NoProjectionItem == [BaseItem EXCEPT !.projOk = FALSE]
\* No finite positive effective pixels per meter
NoScaleItem == [BaseItem EXCEPT !.eppmOk = FALSE]
\* The clip projection of its depth key fails
NoClipItem == [BaseItem EXCEPT !.clipOk = FALSE]

GuardItemDomain ==
  {BaseItem, TwinItem, NotReadyItem, NoResourceItem, BadHandleItem,
   NoProjectionItem, NoScaleItem, NoClipItem, NaNDepthItem}

InitGuards ==
  /\ \E n \in 0..MaxGuardItems :
       \E t \in TablesOf(LayoutHeader(Len(ResourceList), 0, n),
                         GuardItemDomain) :
         PipeStart(LayoutHeader(Len(ResourceList), 0, n), FrameClip, t)
  /\ JobsIdle
  /\ EnvIdle

SpecGuards == InitGuards /\ [][Next]_vars

----------------------------------------------------------------------------
(* Two invocations on items whose sort keys include a NaN *)

MaxCallItems == 3

\* Drawn after BaseItem, with another opacity
LateItem == [BaseItem EXCEPT !.order = D(1), !.opacity = Fin(1)]

CallItemDomain == {BaseItem, NaNOrderItem, LateItem}

\* 0 clears the override, 1 keeps every phase on the calling thread
CallPoolArgDomain == {D(0), D(1)}

InitCalls ==
  /\ \E n \in 0..MaxCallItems :
       \E t \in TablesOf(LayoutHeader(Len(ResourceList), 0, n),
                         CallItemDomain) :
         PipeStart(LayoutHeader(Len(ResourceList), 0, n), FrameClip, t)
  /\ JobsIdle
  /\ EnvIdle

InvokeCallAgain ==
  \E n \in 0..MaxCallItems :
    \E t \in TablesOf(LayoutHeader(Len(ResourceList), 0, n), CallItemDomain) :
      Invoke(LayoutHeader(Len(ResourceList), 0, n), FrameClip, t)

NextCalls ==
  \/ Next
  \/ \E value \in CallPoolArgDomain : setThreadPoolSize(value)
  \/ InvokeCallAgain

SpecCalls == InitCalls /\ [][NextCalls]_vars

----------------------------------------------------------------------------
(* Binary floating point, round to nearest even, with a short significand *)

\* Bits of the significand (a double has 53)
SignificandBits == 4

RECURSIVE Pow2(_)
Pow2(n) == IF n <= 0 THEN 1 ELSE 2 * Pow2(n - 1)

\* s * m * 2^e with 2^(p-1) <= m < 2^p, or zero
FZero == [s |-> 0, m |-> 0, e |-> 0]

\* n / d * 2^e for n, d > 0, rounded to the nearest value of the format,
\* ties to the even significand
RECURSIVE RoundPos(_, _, _)
RoundPos(n, d, e) ==
  IF n < d * Pow2(SignificandBits - 1) THEN RoundPos(2 * n, d, e - 1)
  ELSE IF n >= d * Pow2(SignificandBits) THEN RoundPos(n, 2 * d, e + 1)
  ELSE LET q == n \div d
           r == n % d
           up == 2 * r > d \/ (2 * r = d /\ q % 2 = 1)
           m == IF up THEN q + 1 ELSE q
       IN  IF m = Pow2(SignificandBits)
           THEN [s |-> 1, m |-> Pow2(SignificandBits - 1), e |-> e + 1]
           ELSE [s |-> 1, m |-> m, e |-> e]

\* The value of a small integer
FInt(n) ==
  IF n = 0 THEN FZero
  ELSE IF n > 0 THEN RoundPos(n, 1, 0)
  ELSE [RoundPos(-n, 1, 0) EXCEPT !.s = -1]

\* a * b (operator * on doubles)
FMul(a, b) ==
  IF a.s = 0 \/ b.s = 0 THEN FZero
  ELSE [RoundPos(a.m * b.m, 1, a.e + b.e) EXCEPT !.s = a.s * b.s]

\* a / b for b # 0 (operator / on doubles)
FDiv(a, b) ==
  IF a.s = 0 THEN FZero
  ELSE [RoundPos(a.m, b.m, a.e - b.e) EXCEPT !.s = a.s * b.s]

\* Exact comparison of a * b with c * d (no rounding): the sign of
\* a*b - c*d, by bringing both products to the smaller exponent
ProductsCompare(a, b, c, d) ==
  LET e1 == a.e + b.e
      e2 == c.e + d.e
      lo == IF e1 < e2 THEN e1 ELSE e2
      x == a.s * b.s * a.m * b.m * Pow2(e1 - lo)
      y == c.s * d.s * c.m * d.m * Pow2(e2 - lo)
  IN  IF x < y THEN -1 ELSE IF x > y THEN 1 ELSE 0

FOne == [s |-> 1, m |-> Pow2(SignificandBits - 1), e |-> 1 - SignificandBits]

\* a < b, a <= b, a = b (exact, as comparisons of doubles are)
FLess(a, b) == ProductsCompare(a, FOne, b, FOne) < 0
FLessEq(a, b) == ProductsCompare(a, FOne, b, FOne) <= 0
FEq(a, b) == ProductsCompare(a, FOne, b, FOne) = 0

\* std::max(a, b): b if a < b, else a
FMax(a, b) == IF FLess(a, b) THEN b ELSE a

----------------------------------------------------------------------------
(* clampSpritePixelSize and calculateSurfaceWorldDimensions on their own *)

\* lines 631-661
clampSpritePixelSize(width, height, spriteMinPixel, spriteMaxPixel) ==
  LET largest == FMax(width, height)
  IN  IF ~FLess(FZero, largest)
      THEN [width |-> width, height |-> height, scaleAdjustment |-> FOne]
      ELSE
        LET low == FLess(FZero, spriteMinPixel) /\ FLess(largest, spriteMinPixel)
            factor1 == IF low THEN FDiv(spriteMinPixel, largest) ELSE FOne
            width1 == IF low THEN FMul(width, factor1) ELSE width
            height1 == IF low THEN FMul(height, factor1) ELSE height
            scale1 == IF low THEN FMul(FOne, factor1) ELSE FOne
            adjustedLargest == IF low THEN FMul(largest, factor1) ELSE largest
            high == FLess(FZero, spriteMaxPixel)
                      /\ FLess(spriteMaxPixel, adjustedLargest)
            factor2 == IF high THEN FDiv(spriteMaxPixel, adjustedLargest)
                       ELSE FOne
        IN  [width |-> IF high THEN FMul(width1, factor2) ELSE width1,
             height |-> IF high THEN FMul(height1, factor2) ELSE height1,
             scaleAdjustment |-> IF high THEN FMul(scale1, factor2) ELSE scale1]

\* lines 2098-2140, for finite arguments
calculateSurfaceWorldDimensions(imageWidth, imageHeight, baseMetersPerPixel, imageScale, zoomScaleFactor, effectivePixelsPerMeter, spriteMinPixel, spriteMaxPixel) ==
  IF ~FLess(FZero, imageWidth) \/ ~FLess(FZero, imageHeight)
       \/ ~FLess(FZero, baseMetersPerPixel)
  THEN [width |-> FZero, height |-> FZero, scaleAdjustment |-> FOne]
  ELSE
    LET scaleFactor == FMul(FMul(baseMetersPerPixel, imageScale),
                            zoomScaleFactor)
        width == FMul(imageWidth, scaleFactor)
        height == FMul(imageHeight, scaleFactor)
        largestMeters == FMax(width, height)
        largestPixels == FMul(largestMeters, effectivePixelsPerMeter)
        bounded == /\ FLess(FZero, effectivePixelsPerMeter)
                   /\ (FLess(FZero, spriteMinPixel)
                         \/ FLess(FZero, spriteMaxPixel))
                   /\ FLess(FZero, largestMeters)
                   /\ FLess(FZero, largestPixels)
        low == FLess(FZero, spriteMinPixel)
                 /\ FLess(largestPixels, spriteMinPixel)
        scale1 == IF low THEN FDiv(spriteMinPixel, largestPixels) ELSE FOne
        scaledLargest == FMul(largestPixels, scale1)
        high == FLess(FZero, spriteMaxPixel)
                  /\ FLess(spriteMaxPixel, scaledLargest)
        scale == IF high THEN FDiv(spriteMaxPixel, largestPixels) ELSE scale1
    IN  IF bounded /\ ~FEq(scale, FOne)
        THEN [width |-> FMul(width, scale), height |-> FMul(height, scale),
              scaleAdjustment |-> FMul(FOne, scale)]
        ELSE [width |-> width, height |-> height, scaleAdjustment |-> FOne]

\* Largest raw size and largest bound tried, in pixels
MaxPixel == 15

RawSizeDomain == {FInt(n) : n \in 1..MaxPixel}
PixelBoundDomain == {FInt(n) : n \in -1..MaxPixel}
PixelsPerMeterDomain == {FInt(1), FInt(3)}

InitClamp ==
  /\ PipeStart(LayoutHeader(Len(ResourceList), 0, 0), FrameClip,
               [res |-> ResTableOf(Len(ResourceList)), items |-> <<>>])
  /\ JobsIdle
  /\ g_threadPoolLimit = NoLimit
  /\ headerPoolLimit = NoLimit
  /\ hardwareConcurrency = 0
  /\ lastPoolArg = [k |-> "none", h |-> 0]
  /\ wcPhase = "none"
  /\ wcTotal = 0
  /\ wcCount = 0
  /\ calls = <<>>
  /\ sortMemo = {}
  /\ fn = "none"
  /\ fnOut = <<>>
  /\ \E w \in RawSizeDomain, h \in RawSizeDomain,
        lo \in PixelBoundDomain, hi \in PixelBoundDomain,
        ppm \in PixelsPerMeterDomain :
       fnArgs = [width |-> w, height |-> h, spriteMinPixel |-> lo,
                 spriteMaxPixel |-> hi, effectivePixelsPerMeter |-> ppm]

\* One helper function returns
Returns(name, out) ==
  /\ fn = "none"
  /\ fn' = name
  /\ fnOut' = out
  /\ UNCHANGED <<pipeVars, jobVars, poolVars, poolHist, countVars, calls,
                 sortMemo, fnArgs, histVars>>

\* Billboard: the size in pixels is clamped
ClampPixels ==
  Returns("clampSpritePixelSize",
          clampSpritePixelSize(fnArgs.width, fnArgs.height,
                               fnArgs.spriteMinPixel, fnArgs.spriteMaxPixel))

\* Surface: the size in meters is clamped through its size in pixels
\* (one meter per pixel, scale 1, zoom scale factor 1)
ClampMeters ==
  Returns("calculateSurfaceWorldDimensions",
          calculateSurfaceWorldDimensions(
            fnArgs.width, fnArgs.height, FOne, FOne, FOne,
            fnArgs.effectivePixelsPerMeter,
            fnArgs.spriteMinPixel, fnArgs.spriteMaxPixel))

NextClamp == ClampPixels \/ ClampMeters

SpecClamp == InitClamp /\ [][NextClamp]_vars

----------------------------------------------------------------------------
(* computeImageCenter of an item without origin reference, x coordinate *)

\* a + b and a - b (operators + and - on doubles)
FAdd(a, b) ==
  LET lo == IF a.e < b.e THEN a.e ELSE b.e
      n == a.s * a.m * Pow2(a.e - lo) + b.s * b.m * Pow2(b.e - lo)
  IN  IF a.s = 0 THEN b
      ELSE IF b.s = 0 THEN a
      ELSE IF n = 0 THEN FZero
      ELSE IF n > 0 THEN RoundPos(n, 1, lo)
      ELSE [RoundPos(-n, 1, lo) EXCEPT !.s = -1]

FNeg(a) == [a EXCEPT !.s = -a.s]
FSub(a, b) == FAdd(a, FNeg(b))

\* 2^(-n)
FPow2Neg(n) == FDiv(FOne, FInt(Pow2(n)))

\* The host's view: a drawing buffer W pixels wide at pixel ratio r, a world
\* of worldSize units and a homogeneous coordinate w. mercatorMatrix takes
\* mercator x in [0, 1] to clip x in [-w, w]; pixelMatrix takes world x in
\* [0, worldSize] to w times the screen x in [0, W / r]: both describe the
\* same projection.
WorldSizeLog2 == 3

HostView(W, r, w) ==
  [drawingBufferWidth |-> FInt(W),
   pixelRatio |-> FInt(r),
   worldSize |-> FInt(Pow2(WorldSizeLog2)),
   mercatorMatrix |-> [m0 |-> FInt(2 * w), m12 |-> FInt(-w), m15 |-> FInt(w)],
   pixelMatrix |-> [m0 |-> FMul(FDiv(FInt(W * w), FInt(r)),
                                FPow2Neg(WorldSizeLog2)),
                    m12 |-> FZero, m15 |-> FInt(w)]]

HostViewDomain == {HostView(W, r, w) : W \in {4, 5, 6}, r \in {1, 2},
                                       w \in {1, 3}}

\* Sixteenths of the world
MercatorSteps == 16
MercatorDomain == {FDiv(FInt(k), FInt(MercatorSteps)) :
                     k \in 1..(MercatorSteps - 1)}

\* _project (projection_host.h lines 98-144): x of the screen point of a
\* location given by its mercator x
project(mercatorX, view) ==
  LET worldX == FMul(mercatorX, view.worldSize)
      clipX == FAdd(FMul(view.pixelMatrix.m0, worldX), view.pixelMatrix.m12)
      clipW == view.pixelMatrix.m15
  IN  IF ~FLess(FZero, clipW) THEN [ok |-> FALSE, x |-> FZero]
      ELSE [ok |-> TRUE, x |-> FDiv(clipX, clipW)]

\* __projectLngLatToClipSpace (lines 2470-2499): clip x and clip w
projectLngLatToClip(mercatorX, view) ==
  [ok |-> FLess(FZero, view.mercatorMatrix.m15),
   x |-> FAdd(FMul(view.mercatorMatrix.m0, mercatorX),
              FMul(view.mercatorMatrix.m12, FOne)),
   w |-> view.mercatorMatrix.m15]

\* clipToScreen (lines 958-981)
clipToScreen(clip, view) ==
  LET invW == FDiv(FOne, clip.w)
      ndcX == FMul(clip.x, invW)
      deviceX == FMul(FMul(FAdd(ndcX, FOne), FDiv(FOne, FInt(2))),
                      view.drawingBufferWidth)
  IN  FDiv(deviceX, view.pixelRatio)

\* projectPoint of calculateSurfaceCenterPosition (lines 2268-2284)
projectPoint(mercatorX, view, clipContext) ==
  IF clipContext /\ projectLngLatToClip(mercatorX, view).ok
  THEN [ok |-> TRUE,
        x |-> clipToScreen(projectLngLatToClip(mercatorX, view), view)]
  ELSE IF ~clipContext THEN project(mercatorX, view)
  ELSE [ok |-> FALSE, x |-> FZero]

\* The anchor shift: minus anchor.x times the half size, at rotation 0
\* (lines 897-914 and 920-939)
AnchorShift(anchorX, half) ==
  IF FEq(FMul(anchorX, half), FZero) THEN FZero
  ELSE FNeg(FMul(anchorX, half))

\* The offset at offsetDeg = 90: all of offsetMeters goes east
\* (lines 877-891 and 941-956), with scale and zoom scale factor 1
OffsetShift(offsetMeters, unitsPerMeter) ==
  FMul(FMul(FMul(offsetMeters, FOne), FOne), unitsPerMeter)

\* applySurfaceDisplacement (lines 796-813): east meters taken to mercator x
\* (one meter is 2^-6 of the world here)
MetersLog2 == 6

applySurfaceDisplacement(mercatorX, east) ==
  FAdd(mercatorX, FMul(east, FPow2Neg(MetersLog2)))

\* computeImageCenter (lines 1197-1311) for an item of a resource with
\* positive size and no origin reference: base point, anchor-applied and
\* anchorless center
computeImageCenter(a) ==
  LET basePoint == project(a.mercatorX, a.view).x
      half == FInt(2)
  IN  IF a.isSurface
      THEN
        LET anchorShiftMeters == AnchorShift(a.anchorX, half)
            offsetEast == OffsetShift(a.offsetMeters, FOne)
            total == FAdd(anchorShiftMeters, offsetEast)
            center == projectPoint(applySurfaceDisplacement(a.mercatorX, total),
                                   a.view, a.clipContextAvailable)
            anchorless == projectPoint(
                            applySurfaceDisplacement(a.mercatorX, offsetEast),
                            a.view, a.clipContextAvailable)
            anchorlessCenter == IF anchorless.ok THEN anchorless.x
                                ELSE basePoint
        IN  [basePoint |-> basePoint,
             anchorlessCenter |-> anchorlessCenter,
             anchorAppliedCenter |-> IF center.ok THEN center.x
                                     ELSE anchorlessCenter]
      ELSE
        LET anchorShift == AnchorShift(a.anchorX, half)
            center == FAdd(basePoint, OffsetShift(a.offsetMeters, FInt(2)))
        IN  [basePoint |-> basePoint,
             anchorAppliedCenter |-> center,
             anchorlessCenter |-> FAdd(center, anchorShift)]

InitCenter ==
  /\ PipeStart(LayoutHeader(Len(ResourceList), 0, 0), FrameClip,
               [res |-> ResTableOf(Len(ResourceList)), items |-> <<>>])
  /\ JobsIdle
  /\ g_threadPoolLimit = NoLimit
  /\ headerPoolLimit = NoLimit
  /\ hardwareConcurrency = 0
  /\ lastPoolArg = [k |-> "none", h |-> 0]
  /\ wcPhase = "none"
  /\ wcTotal = 0
  /\ wcCount = 0
  /\ calls = <<>>
  /\ sortMemo = {}
  /\ fn = "none"
  /\ fnOut = <<>>
  /\ \E surface \in BOOLEAN, clip \in BOOLEAN, view \in HostViewDomain,
        x \in MercatorDomain, anchorX \in {FZero, FOne},
        offsetMeters \in {FZero, FOne} :
       fnArgs = [isSurface |-> surface, clipContextAvailable |-> clip,
                 view |-> view, mercatorX |-> x, anchorX |-> anchorX,
                 offsetMeters |-> offsetMeters]

CenterOfBillboard ==
  /\ ~fnArgs.isSurface
  /\ Returns("computeImageCenter", computeImageCenter(fnArgs))

CenterOfSurface ==
  /\ fnArgs.isSurface
  /\ Returns("computeImageCenter", computeImageCenter(fnArgs))

NextCenter == CenterOfBillboard \/ CenterOfSurface

SpecCenter == InitCenter /\ [][NextCenter]_vars

----------------------------------------------------------------------------
(* calculatePerspectiveRatio and the effective pixels per meter *)

\* Doubles with NaN, infinities and a bounded exponent: a quotient or product
\* of 2^MaxExponent or more in magnitude overflows to an infinity, one below
\* 2^-MaxExponent underflows to zero
MaxExponent == 12

QNaN == [k |-> "nan", v |-> FZero]
QInf == [k |-> "inf", v |-> FZero]
QNegInf == [k |-> "ninf", v |-> FZero]
QFin(v) == [k |-> "fin", v |-> v]
QOne == QFin(FOne)

\* std::isfinite(q), q > 0.0, q <= 0.0 (both false of a NaN)
QIsFinite(q) == q.k = "fin"
QPositive(q) == q.k = "inf" \/ (q.k = "fin" /\ q.v.s > 0)
QNotPositive(q) == q.k = "ninf" \/ (q.k = "fin" /\ q.v.s <= 0)

QSign(q) == IF q.k = "inf" THEN 1 ELSE IF q.k = "ninf" THEN -1 ELSE q.v.s

\* A finite result brought into the exponent range
QRange(v) ==
  IF v.s = 0 THEN QFin(FZero)
  ELSE IF v.e + SignificandBits - 1 >= MaxExponent
  THEN IF v.s > 0 THEN QInf ELSE QNegInf
  ELSE IF v.e + SignificandBits - 1 < -MaxExponent THEN QFin(FZero)
  ELSE QFin(v)

\* a / b of IEEE 754 (signed zeros left aside: x / 0 is taken as +-inf by
\* the sign of x)
QDiv(a, b) ==
  IF a.k = "nan" \/ b.k = "nan" THEN QNaN
  ELSE IF a.k # "fin" /\ b.k # "fin" THEN QNaN
  ELSE IF a.k # "fin"
  THEN IF QSign(a) * (IF b.v.s < 0 THEN -1 ELSE 1) > 0 THEN QInf ELSE QNegInf
  ELSE IF b.k # "fin" THEN QFin(FZero)
  ELSE IF b.v.s = 0
  THEN IF a.v.s = 0 THEN QNaN ELSE IF a.v.s > 0 THEN QInf ELSE QNegInf
  ELSE QRange(FDiv(a.v, b.v))

\* a * b of IEEE 754
QMul(a, b) ==
  IF a.k = "nan" \/ b.k = "nan" THEN QNaN
  ELSE IF a.k # "fin" \/ b.k # "fin"
  THEN IF QSign(a) * QSign(b) = 0 THEN QNaN
       ELSE IF QSign(a) * QSign(b) > 0 THEN QInf ELSE QNegInf
  ELSE QRange(FMul(a.v, b.v))

\* _calculatePerspectiveRatio (projection_host.h lines 215-258), from clip w
\* on: whether a ratio was stored, and the ratio
ratioFromClipW(cameraToCenterDistance, clipW) ==
  IF ~QIsFinite(clipW) \/ QNotPositive(clipW)
  THEN [ok |-> FALSE, ratio |-> QOne]
  ELSE LET ratio == QDiv(cameraToCenterDistance, clipW)
       IN  IF QIsFinite(ratio) /\ QPositive(ratio)
           THEN [ok |-> TRUE, ratio |-> ratio]
           ELSE [ok |-> FALSE, ratio |-> QOne]

\* The ratio a caller may use: finite and positive (line 1088)
RatioOrNeutral(ratio) ==
  IF QIsFinite(ratio) /\ QPositive(ratio) THEN ratio ELSE QOne

\* The quotient with none of the checks
calculatePerspectiveRatioRaw(hasMatrix, cameraToCenterDistance, clipW) ==
  QDiv(cameraToCenterDistance, clipW)

\* calculatePerspectiveRatio (lines 1056-1089)
calculatePerspectiveRatio(hasMatrix, cameraToCenterDistance, clipW) ==
  IF ~hasMatrix \/ QNotPositive(cameraToCenterDistance) THEN QOne
  ELSE IF ~ratioFromClipW(cameraToCenterDistance, clipW).ok THEN QOne
  ELSE RatioOrNeutral(ratioFromClipW(cameraToCenterDistance, clipW).ratio)

\* calculateEffectivePixelsPerMeter (lines 842-854)
calculateEffectivePixelsPerMeter(metersPerPixelAtLatitude, perspectiveRatio) ==
  IF ~QIsFinite(metersPerPixelAtLatitude)
       \/ QNotPositive(metersPerPixelAtLatitude)
  THEN QFin(FZero)
  ELSE QMul(QDiv(QOne, metersPerPixelAtLatitude),
            RatioOrNeutral(perspectiveRatio))

\* ensureBucketEffectivePixelsPerMeter (lines 1360-1394) on a bucket that has
\* no value yet: what it returns and what it stores
computeEffectivePixelsPerMeter(a) ==
  LET perspectiveRatio ==
        calculatePerspectiveRatio(a.hasMatrix, a.cameraToCenterDistance,
                                  a.clipW)
      effectivePixelsPerMeter ==
        calculateEffectivePixelsPerMeter(a.metersPerPixelAtLat,
                                         perspectiveRatio)
  IN  IF ~QIsFinite(a.metersPerPixelAtLat)
           \/ QNotPositive(a.metersPerPixelAtLat)
      THEN [ok |-> FALSE, perspectiveRatio |-> QNaN,
            effectivePixelsPerMeter |-> QNaN, evaluated |-> FALSE]
      ELSE [ok |-> QIsFinite(effectivePixelsPerMeter)
                     /\ QPositive(effectivePixelsPerMeter),
            perspectiveRatio |-> perspectiveRatio,
            effectivePixelsPerMeter |-> effectivePixelsPerMeter,
            evaluated |-> TRUE]

\* 2^HugeLog2 and 2^-HugeLog2 stand for very large and very small values
HugeLog2 == 8

QDomain == {QNaN, QInf, QNegInf, QFin(FZero), QFin(FInt(-1)),
            QFin(FPow2Neg(HugeLog2)), QOne, QFin(FInt(3)),
            QFin(FInt(Pow2(HugeLog2)))}

InitRatio ==
  /\ PipeStart(LayoutHeader(Len(ResourceList), 0, 0), FrameClip,
               [res |-> ResTableOf(Len(ResourceList)), items |-> <<>>])
  /\ JobsIdle
  /\ g_threadPoolLimit = NoLimit
  /\ headerPoolLimit = NoLimit
  /\ hardwareConcurrency = 0
  /\ lastPoolArg = [k |-> "none", h |-> 0]
  /\ wcPhase = "none"
  /\ wcTotal = 0
  /\ wcCount = 0
  /\ calls = <<>>
  /\ sortMemo = {}
  /\ fn = "none"
  /\ fnOut = <<>>
  /\ \E hasMatrix \in BOOLEAN, d \in QDomain, w \in QDomain, mpp \in QDomain :
       fnArgs = [hasMatrix |-> hasMatrix, cameraToCenterDistance |-> d,
                 clipW |-> w, metersPerPixelAtLat |-> mpp]

EnsureEffectivePixelsPerMeter ==
  Returns("ensureBucketEffectivePixelsPerMeter",
          computeEffectivePixelsPerMeter(fnArgs))

NextRatio == EnsureEffectivePixelsPerMeter

SpecRatio == InitRatio /\ [][NextRatio]_vars

----------------------------------------------------------------------------
(* __calculateSurfaceDepthKey on its own *)

\* a + b and -a of IEEE 754
QAdd(a, b) ==
  IF a.k = "nan" \/ b.k = "nan" THEN QNaN
  ELSE IF a.k # "fin" /\ b.k # "fin"
  THEN IF a.k = b.k THEN a ELSE QNaN
  ELSE IF a.k # "fin" THEN a
  ELSE IF b.k # "fin" THEN b
  ELSE QRange(FAdd(a.v, b.v))

QNeg(a) ==
  IF a.k = "inf" THEN QNegInf
  ELSE IF a.k = "ninf" THEN QInf
  ELSE IF a.k = "nan" THEN QNaN
  ELSE QFin(FNeg(a.v))

\* a < b (false if either is a NaN)
QLess(a, b) ==
  /\ a.k # "nan" /\ b.k # "nan"
  /\ \/ a.k = "ninf" /\ b.k # "ninf"
     \/ b.k = "inf" /\ a.k # "inf"
     \/ a.k = "fin" /\ b.k = "fin" /\ FLess(a.v, b.v)

\* 1e-6, rounded to the format
MIN_CLIP_W == QFin(RoundPos(1, 1000000, 0))

\* __projectLngLatToClipSpace (lines 2470-2499) on the clip z and w the
\* matrix product gave for a corner (clip x and y are taken as finite)
cornerToClipSpace(corner) ==
  QIsFinite(corner.clipZ) /\ QIsFinite(corner.clipW)
    /\ QLess(MIN_CLIP_W, corner.clipW)

\* The clip z a corner is judged by (lines 2608-2612)
biasedClipZ(corner, applyBias, biasNdc, minClipZEpsilon) ==
  IF ~applyBias THEN corner.clipZ
  ELSE LET biased == QAdd(corner.clipZ, QMul(biasNdc, corner.clipW))
           minClipZ == QAdd(QNeg(corner.clipW), minClipZEpsilon)
       IN  IF QLess(biased, minClipZ) THEN minClipZ ELSE biased

\* A deeper candidate that replaces the maximum at any rate
candidateReplacesAlways(depthCandidate, maxDepth) == TRUE

\* depthCandidate > maxDepth (line 2620)
candidateReplaces(depthCandidate, maxDepth) == QLess(maxDepth, depthCandidate)

\* The loop of lines 2572-2622 from position n (1-based) of indices on:
\* failed, or the maximum so far
RECURSIVE depthKeyLoop(_, _, _)
depthKeyLoop(a, n, maxDepth) ==
  IF n > Len(a.indices) THEN [ok |-> TRUE, maxDepth |-> maxDepth]
  ELSE IF a.indices[n] < 0 \/ a.indices[n] >= a.displacementCount
  THEN depthKeyLoop(a, n + 1, maxDepth)
  ELSE
    LET corner == a.corners[a.indices[n] + 1]
        clipZ == biasedClipZ(corner, a.applyBias, a.biasNdc,
                             a.minClipZEpsilon)
        ndcZ == IF corner.clipW # QFin(FZero) THEN QDiv(clipZ, corner.clipW)
                ELSE clipZ
        depthCandidate == QNeg(ndcZ)
    IN  IF ~cornerToClipSpace(corner) THEN [ok |-> FALSE, maxDepth |-> maxDepth]
        ELSE IF ~QIsFinite(ndcZ) THEN [ok |-> FALSE, maxDepth |-> maxDepth]
        ELSE depthKeyLoop(a, n + 1,
                          IF candidateReplaces(depthCandidate, maxDepth)
                          THEN depthCandidate ELSE maxDepth)

\* __calculateSurfaceDepthKey (lines 2553-2631); indexCount is Len(indices)
calculateSurfaceDepthKey(a) ==
  IF a.displacementCount <= 0 \/ Len(a.indices) <= 0
  THEN [ok |-> FALSE, key |-> QNaN]
  ELSE LET r == depthKeyLoop(a, 1, QNegInf)
       IN  IF ~r.ok \/ ~QIsFinite(r.maxDepth) THEN [ok |-> FALSE, key |-> QNaN]
           ELSE [ok |-> TRUE, key |-> r.maxDepth]

\* The caller passes SURFACE_CLIP_CORNER_COUNT corners; two are tried here
DepthKeyCorners == 2
MaxIndexCount == 2

ClipZDomain == {QNaN, QFin(FInt(-2)), QFin(FZero), QOne,
                QFin(FInt(Pow2(HugeLog2)))}
ClipWDomain == {QNaN, QFin(FZero), MIN_CLIP_W, QOne, QFin(FInt(2))}
CornerDomain == [clipZ : ClipZDomain, clipW : ClipWDomain]
BiasNdcDomain == {QFin(FZero), QNeg(QFin(FPow2Neg(2))), QNaN}
IndexDomain == UNION {[1..n -> -1..DepthKeyCorners] : n \in 0..MaxIndexCount}

InitDepthKey ==
  /\ PipeStart(LayoutHeader(Len(ResourceList), 0, 0), FrameClip,
               [res |-> ResTableOf(Len(ResourceList)), items |-> <<>>])
  /\ JobsIdle
  /\ g_threadPoolLimit = NoLimit
  /\ headerPoolLimit = NoLimit
  /\ hardwareConcurrency = 0
  /\ lastPoolArg = [k |-> "none", h |-> 0]
  /\ wcPhase = "none"
  /\ wcTotal = 0
  /\ wcCount = 0
  /\ calls = <<>>
  /\ sortMemo = {}
  /\ fn = "none"
  /\ fnOut = <<>>
  /\ \E corners \in [1..DepthKeyCorners -> CornerDomain],
        count \in {0, DepthKeyCorners}, indices \in IndexDomain,
        applyBias \in BOOLEAN, biasNdc \in BiasNdcDomain :
       fnArgs = [corners |-> corners, displacementCount |-> count,
                 indices |-> indices, applyBias |-> applyBias,
                 biasNdc |-> biasNdc,
                 minClipZEpsilon |-> QFin(FPow2Neg(HugeLog2))]

SurfaceDepthKey ==
  Returns("__calculateSurfaceDepthKey", calculateSurfaceDepthKey(fnArgs))

NextDepthKey == SurfaceDepthKey

SpecDepthKey == InitDepthKey /\ [][NextDepthKey]_vars

----------------------------------------------------------------------------
(* Interpolation batches: interpolation.cpp, interpolation_layouts.h *)

INTERPOLATION_BATCH_HEADER_LENGTH == 1
DISTANCE_INTERPOLATION_ITEM_LENGTH == 10
DISTANCE_INTERPOLATION_RESULT_LENGTH == 3
DEGREE_INTERPOLATION_ITEM_LENGTH == 10
DEGREE_INTERPOLATION_RESULT_LENGTH == 3
SPRITE_INTERPOLATION_ITEM_LENGTH == 14
SPRITE_INTERPOLATION_RESULT_LENGTH == 6
PROCESS_INTERPOLATIONS_HEADER_LENGTH == 3

\* Items of one kind and workers of one dispatch tried
MaxInterpItems == 2
MaxInterpWorkers == 2

InterpolationKinds == <<"distance", "degree", "sprite">>

InterpolationItemLength(kind) ==
  CASE kind = "distance" -> DISTANCE_INTERPOLATION_ITEM_LENGTH
    [] kind = "degree" -> DEGREE_INTERPOLATION_ITEM_LENGTH
    [] OTHER -> SPRITE_INTERPOLATION_ITEM_LENGTH

InterpolationResultLength(kind) ==
  CASE kind = "distance" -> DISTANCE_INTERPOLATION_RESULT_LENGTH
    [] kind = "degree" -> DEGREE_INTERPOLATION_RESULT_LENGTH
    [] OTHER -> SPRITE_INTERPOLATION_RESULT_LENGTH

\* Offsets from readCursor that one pass of the loop body reads: 0..10 in
\* evaluateDistanceInterpolationsRange and evaluateDegreeInterpolationsRange
\* (lines 254-264, 346-356), 0..13 in evaluateSpriteInterpolationsRange
\* (lines 438-451)
readOffsets(kind) == IF kind = "sprite" THEN 0..13 ELSE 0..10

\* Offsets from target that writeNumericApplyInterpolationResult (0..3) and
\* writeSpriteInterpolationResult (0..5) write
writeOffsets(kind) == IF kind = "sprite" THEN 0..5 ELSE 0..3

\* What the loop body of evaluate<Kind>InterpolationsRange does to memory
\* for item idx of a section, on worker w (0: the calling thread)
evaluateItem(s, sec, idx, w) ==
  {[section |-> s, kind |-> sec.kind, item |-> idx, w |-> w, wr |-> FALSE,
    loc |-> <<"params",
              sec.cursor + idx * InterpolationItemLength(sec.kind) + k>>] :
     k \in readOffsets(sec.kind)}
  \cup
  {[section |-> s, kind |-> sec.kind, item |-> idx, w |-> w, wr |-> TRUE,
    loc |-> <<"result",
              sec.write + idx * InterpolationResultLength(sec.kind) + k>>] :
     k \in writeOffsets(sec.kind)}

\* evaluate<Kind>InterpolationsRange(cursor, write, start, end)
evaluateRange(s, sec, start, end, w) ==
  UNION {evaluateItem(s, sec, idx, w) : idx \in start..(end - 1)}

\* cursor and write of each section of a call: one section behind the batch
\* header for evaluate<Kind>Interpolations, three in a row behind the
\* header for processInterpolations (lines 529-568)
InterpolationSections(entry, counts) ==
  IF entry = "processInterpolations"
  THEN LET c1 == PROCESS_INTERPOLATIONS_HEADER_LENGTH
           w1 == PROCESS_INTERPOLATIONS_HEADER_LENGTH
           c2 == c1 + counts[1] * DISTANCE_INTERPOLATION_ITEM_LENGTH
           w2 == w1 + counts[1] * DISTANCE_INTERPOLATION_RESULT_LENGTH
           c3 == c2 + counts[2] * DEGREE_INTERPOLATION_ITEM_LENGTH
           w3 == w2 + counts[2] * DEGREE_INTERPOLATION_RESULT_LENGTH
       IN  <<[kind |-> "distance", count |-> counts[1],
              cursor |-> c1, write |-> w1],
             [kind |-> "degree", count |-> counts[2],
              cursor |-> c2, write |-> w2],
             [kind |-> "sprite", count |-> counts[3],
              cursor |-> c3, write |-> w3]>>
  ELSE LET n == CHOOSE i \in 1..3 :
                  entry = CASE i = 1 -> "evaluateDistanceInterpolations"
                            [] i = 2 -> "evaluateDegreeInterpolations"
                            [] OTHER -> "evaluateSpriteInterpolations"
       IN  <<[kind |-> InterpolationKinds[n], count |-> counts[n],
              cursor |-> INTERPOLATION_BATCH_HEADER_LENGTH,
              write |-> INTERPOLATION_BATCH_HEADER_LENGTH]>>

InterpolationEntries ==
  {"evaluateDistanceInterpolations", "evaluateDegreeInterpolations",
   "evaluateSpriteInterpolations", "processInterpolations"}

\* Everything of the pipeline but the record of memory accesses
pipeButAcc == <<inVars, pc, ret, outVars, decVars, depthVars, depthItems,
                prepVars, stageVars, stage>>

\* A call of one of the four entry points with its counts; workers[s] is
\* what determineInterpolationWorkerCount gives for section s
InitInterp ==
  /\ PipeStart(LayoutHeader(Len(ResourceList), 0, 0), FrameClip,
               [res |-> ResTableOf(Len(ResourceList)), items |-> <<>>])
  /\ jobN = 0
  /\ jobW = 0
  /\ jobPc = "entry"
  /\ jobSpawned = 0
  /\ jobWorkers = <<>>
  /\ jobHits = <<>>
  /\ g_threadPoolLimit = NoLimit
  /\ headerPoolLimit = NoLimit
  /\ hardwareConcurrency = 0
  /\ lastPoolArg = [k |-> "none", h |-> 0]
  /\ wcPhase = "none"
  /\ wcTotal = 0
  /\ wcCount = 0
  /\ calls = <<>>
  /\ sortMemo = {}
  /\ fn = "none"
  /\ fnOut = [section |-> 1]
  /\ \E entry \in InterpolationEntries,
        counts \in [1..3 -> 0..MaxInterpItems],
        workers \in [1..3 -> 1..MaxInterpWorkers] :
       /\ entry # "processInterpolations" =>
            \A i \in 1..3 :
              InterpolationSections(entry, counts)[1].kind
                  # InterpolationKinds[i]
                => counts[i] = 0 /\ workers[i] = 1
       /\ fnArgs = [entry |-> entry, counts |-> counts, workers |-> workers]

InterpSections == InterpolationSections(fnArgs.entry, fnArgs.counts)
InterpSection == InterpSections[fnOut.section]
InterpWorkerCount ==
  LET n == CHOOSE i \in 1..3 : InterpolationKinds[i] = InterpSection.kind
  IN  fnArgs.workers[n]
InterpRunning == fn = "none" /\ fnOut.section <= Len(InterpSections)

\* evaluate<Kind>InterpolationsImpl without workers: count == 0, or
\* workerCount <= 1 and the whole range on the calling thread
InterpInline ==
  /\ InterpRunning
  /\ jobPc = "entry"
  /\ InterpSection.count = 0 \/ InterpWorkerCount <= 1
  /\ acc' = acc \cup evaluateRange(fnOut.section, InterpSection, 0,
                                   InterpSection.count, 0)
  /\ fnOut' = [section |-> fnOut.section + 1]
  /\ UNCHANGED <<pipeButAcc, jobVars, poolVars, poolHist, countVars, calls,
                 sortMemo, fn, fnArgs, histVars>>

\* runWorkerJobs starts the next worker on its range, or ends the loop
InterpSpawn ==
  /\ InterpRunning
  /\ jobPc \in {"entry", "spawn"}
  /\ ~(InterpSection.count = 0 \/ InterpWorkerCount <= 1)
  /\ IF SpawnLoopEnded(jobSpawned, InterpSection.count, InterpWorkerCount)
     THEN /\ jobPc' = "join"
          /\ UNCHANGED <<jobSpawned, jobWorkers>>
     ELSE /\ jobWorkers' = Append(jobWorkers,
               [workerIndex |-> jobSpawned,
                start |-> RangeStart(jobSpawned, InterpSection.count,
                                     InterpWorkerCount),
                end |-> RangeEnd(jobSpawned, InterpSection.count,
                                 InterpWorkerCount),
                next |-> RangeStart(jobSpawned, InterpSection.count,
                                    InterpWorkerCount)])
          /\ jobSpawned' = jobSpawned + 1
          /\ jobPc' = "spawn"
  /\ UNCHANGED <<pipeVars, jobN, jobW, jobHits, envVars, histVars>>

\* Worker w evaluates the next item of its range
InterpWorkerStep(w) ==
  /\ InterpRunning
  /\ jobPc \in {"spawn", "join"}
  /\ w \in 1..Len(jobWorkers)
  /\ jobWorkers[w].next < jobWorkers[w].end
  /\ acc' = acc \cup evaluateItem(fnOut.section, InterpSection,
                                  jobWorkers[w].next, w)
  /\ jobWorkers' = [jobWorkers EXCEPT ![w].next = @ + 1]
  /\ UNCHANGED <<pipeButAcc, jobN, jobW, jobPc, jobSpawned, jobHits, envVars,
                 histVars>>

\* Every worker is joined; the call goes on behind the section
InterpJoin ==
  /\ InterpRunning
  /\ jobPc = "join"
  /\ \A w \in 1..Len(jobWorkers) : jobWorkers[w].next >= jobWorkers[w].end
  /\ jobPc' = "entry"
  /\ jobSpawned' = 0
  /\ jobWorkers' = <<>>
  /\ fnOut' = [section |-> fnOut.section + 1]
  /\ UNCHANGED <<pipeVars, jobN, jobW, jobHits, poolVars, poolHist, countVars,
                 calls, sortMemo, fn, fnArgs, histVars>>

\* The entry point returns true
InterpReturn ==
  /\ fn = "none"
  /\ fnOut.section > Len(InterpSections)
  /\ fn' = fnArgs.entry
  /\ UNCHANGED <<pipeVars, jobVars, poolVars, poolHist, countVars, calls,
                 sortMemo, fnArgs, fnOut, histVars>>

NextInterp ==
  \/ InterpInline
  \/ InterpSpawn
  \/ \E w \in 1..MaxInterpWorkers : InterpWorkerStep(w)
  \/ InterpJoin
  \/ InterpReturn

SpecInterp == InitInterp /\ [][NextInterp]_vars

----------------------------------------------------------------------------
(* Interpolation results: interpolation.cpp lines 244-296 and 428-489,    *)
(* calculation_host.cpp lines 2969-3005                                    *)

QSub(a, b) == QAdd(a, QNeg(b))
QAbs(a) == IF QLess(a, QFin(FZero)) THEN QNeg(a) ELSE a
\* a >= b (false if either is a NaN)
QGreaterEq(a, b) == a.k # "nan" /\ b.k # "nan" /\ ~QLess(a, b)
QBool(b) == IF b THEN QOne ELSE QFin(FZero)

\* 1e-6, rounded to the format
DISTANCE_EPSILON == QFin(RoundPos(1, 1000000, 0))

clamp01(value) ==
  IF ~QIsFinite(value) THEN QOne
  ELSE IF ~QLess(QFin(FZero), value) THEN QFin(FZero)
  ELSE IF QGreaterEq(value, QOne) THEN QOne
  ELSE value

clampOpacity(value) ==
  IF ~QIsFinite(value) THEN QFin(FZero)
  ELSE IF ~QLess(QFin(FZero), value) THEN QFin(FZero)
  ELSE IF QGreaterEq(value, QOne) THEN QOne
  ELSE value

resolveEffectiveStart(startTimestamp, timestamp) ==
  IF QGreaterEq(startTimestamp, QFin(FZero)) THEN startTimestamp
  ELSE timestamp

lerp(from, to, ratio) == QAdd(from, QMul(QSub(to, from), ratio))

\* rawProgress of an item that requires interpolation (duration > 0 there)
rawProgressOf(duration, startTimestamp, timestamp) ==
  QDiv(QSub(timestamp, resolveEffectiveStart(startTimestamp, timestamp)),
       duration)

\* The loop body of the numeric evaluators up to the result it hands to the
\* writer, with the linear easing preset; channel is read by
\* interpolation.cpp only (1: opacity), where value and final value are
\* passed through clampOpacity
numericResult(variant, item, timestamp) ==
  LET effectiveStart == resolveEffectiveStart(item.startTimestamp, timestamp)
      interpolates ==
        /\ QLess(QFin(FZero), item.duration)
        /\ QLess(DISTANCE_EPSILON, QAbs(QSub(item.to, item.from)))
      rawProgress ==
        rawProgressOf(item.duration, item.startTimestamp, timestamp)
      completed == ~interpolates \/ QGreaterEq(rawProgress, QOne)
      resultValue ==
        IF completed THEN item.finalValue
        ELSE lerp(item.from, item.to, clamp01(rawProgress))
      isOpacity == variant = "batch" /\ item.channel = 1
  IN  [value |-> IF isOpacity THEN clampOpacity(resultValue) ELSE resultValue,
       final |-> IF isOpacity THEN clampOpacity(item.finalValue)
                 ELSE item.finalValue,
       completed |-> completed,
       effectiveStart |-> effectiveStart]

\* The loop body of evaluateSpriteInterpolationsRange (longitude and z; the
\* latitude is treated as the longitude is)
spriteResult(item, timestamp) ==
  LET effectiveStart == resolveEffectiveStart(item.startTimestamp, timestamp)
      requiresInterpolation ==
        /\ QLess(QFin(FZero), item.duration)
        /\ \/ QLess(DISTANCE_EPSILON, QAbs(QSub(item.toLng, item.fromLng)))
           \/ item.hasZ
                /\ QLess(DISTANCE_EPSILON, QAbs(QSub(item.toZ, item.fromZ)))
      rawProgress ==
        rawProgressOf(item.duration, item.startTimestamp, timestamp)
      completed == ~requiresInterpolation \/ QGreaterEq(rawProgress, QOne)
      eased == clamp01(rawProgress)
  IN  [lng |-> IF completed THEN item.toLng
               ELSE lerp(item.fromLng, item.toLng, eased),
       z |-> IF completed \/ ~item.hasZ THEN item.toZ
             ELSE lerp(item.fromZ, item.toZ, eased),
       hasZ |-> item.hasZ,
       completed |-> completed,
       effectiveStart |-> effectiveStart]

\* The values the writer stores from target[0] on:
\* writeNumericInterpolationResult (calculation_host.cpp lines 126-133),
\* writeNumericApplyInterpolationResult and writeSpriteInterpolationResult
\* (interpolation.cpp lines 216-240)
writtenValues(variant, item, timestamp) ==
  IF variant = "sprite"
  THEN LET r == spriteResult(item, timestamp)
       IN  <<r.lng, r.lng, IF r.hasZ THEN r.z ELSE QFin(FZero),
             QBool(r.hasZ), QBool(r.completed), r.effectiveStart>>
  ELSE LET r == numericResult(variant, item, timestamp)
       IN  IF variant = "host"
           THEN <<r.value, QBool(r.completed), r.effectiveStart>>
           ELSE <<r.value, r.final, QBool(r.completed), r.effectiveStart>>

\* writeCursor advances by this much per item: the RESULT_LENGTH of
\* param_layouts.h lines 36-40 (host) and interpolation_layouts.h
resultStride(variant) ==
  IF variant = "sprite" THEN SPRITE_INTERPOLATION_RESULT_LENGTH
  ELSE DISTANCE_INTERPOLATION_RESULT_LENGTH

\* Offsets in a result record, and what the writer stores there
completedOffset(variant) ==
  CASE variant = "host" -> 1 [] variant = "batch" -> 2 [] OTHER -> 4
effectiveStartOffset(variant) ==
  CASE variant = "host" -> 2 [] variant = "batch" -> 3 [] OTHER -> 5

StaleValue == [k |-> "stale", v |-> FZero]

\* The range evaluated by one thread from item n (1-based) on; result is
\* indexed from `write`
RECURSIVE evaluateResults(_, _, _, _, _)
evaluateResults(variant, items, timestamp, n, result) ==
  IF n > Len(items) THEN result
  ELSE LET values == writtenValues(variant, items[n], timestamp)
           base == (n - 1) * resultStride(variant)
       IN  evaluateResults(variant, items, timestamp, n + 1,
             [slot \in DOMAIN result |->
                IF slot >= base /\ slot < base + Len(values)
                THEN values[slot - base + 1] ELSE result[slot]])

\* Calls of one batch and timestamps tried
MaxEvaluations == 3
MaxTimestamp == 3
MaxBatchItems == 2

QInt(n) == QFin(FInt(n))
DurationDomain == {QInt(-1), QInt(0), QInt(2), QNaN}
StartDomain == {QInt(-1), QInt(0), QInt(1)}

NumericItemDomain(variant) ==
  [channel : IF variant = "batch" THEN {0, 1} ELSE {0},
   duration : DurationDomain, from : {QInt(0)}, to : {QInt(0), QInt(1)},
   finalValue : {QInt(1), QInt(3)}, startTimestamp : StartDomain]

SpriteItemDomain ==
  [duration : DurationDomain, fromLng : {QInt(0)}, toLng : {QInt(0), QInt(1)},
   fromZ : {QInt(0)}, toZ : {QInt(0), QInt(1)}, hasZ : BOOLEAN,
   startTimestamp : StartDomain]

InterpolationItemDomain(variant) ==
  IF variant = "sprite" THEN SpriteItemDomain ELSE NumericItemDomain(variant)

\* A second item of the batch
LaterItem(variant) ==
  IF variant = "sprite"
  THEN [duration |-> QInt(2), fromLng |-> QInt(0), toLng |-> QInt(1),
        fromZ |-> QInt(0), toZ |-> QInt(0), hasZ |-> FALSE,
        startTimestamp |-> QInt(0)]
  ELSE [channel |-> 0, duration |-> QInt(2), from |-> QInt(0),
        to |-> QInt(1), finalValue |-> QInt(1), startTimestamp |-> QInt(0)]

InitCompletion ==
  /\ PipeStart(LayoutHeader(Len(ResourceList), 0, 0), FrameClip,
               [res |-> ResTableOf(Len(ResourceList)), items |-> <<>>])
  /\ JobsIdle
  /\ g_threadPoolLimit = NoLimit
  /\ headerPoolLimit = NoLimit
  /\ hardwareConcurrency = 0
  /\ lastPoolArg = [k |-> "none", h |-> 0]
  /\ wcPhase = "none"
  /\ wcTotal = 0
  /\ wcCount = 0
  /\ calls = <<>>
  /\ sortMemo = {}
  /\ fn = "none"
  /\ \E variant \in {"host", "batch", "sprite"}, n \in 1..MaxBatchItems :
       \E item \in InterpolationItemDomain(variant) :
         /\ fnArgs = [variant |-> variant,
                      items |-> IF n = 1 THEN <<item>>
                                ELSE <<item>> \o
                                     [i \in 1..(n - 1) |-> LaterItem(variant)]]
         /\ fnOut = [evaluations |-> 0, timestamp |-> 0, completedBefore |-> {},
                     result |-> [slot \in 0..(n * resultStride(variant))
                                   |-> StaleValue]]

\* Item n (1-based) as the result buffer reports it
reportedCompleted(variant, result, n) ==
  result[(n - 1) * resultStride(variant) + completedOffset(variant)] = QOne
reportedEffectiveStart(variant, result, n) ==
  result[(n - 1) * resultStride(variant) + effectiveStartOffset(variant)]
reportedValue(variant, result, n) ==
  result[(n - 1) * resultStride(variant)]

\* The host calls the batch evaluator again at a timestamp that is not
\* earlier than the one before
EvaluateInterpolations ==
  /\ fn = "none"
  /\ fnOut.evaluations < MaxEvaluations
  /\ \E t \in fnOut.timestamp..MaxTimestamp :
       fnOut' =
         [evaluations |-> fnOut.evaluations + 1,
          timestamp |-> t,
          completedBefore |->
            IF fnOut.evaluations = 0 THEN {}
            ELSE fnOut.completedBefore \cup
                 {n \in 1..Len(fnArgs.items) :
                    reportedCompleted(fnArgs.variant, fnOut.result, n)},
          result |-> evaluateResults(fnArgs.variant, fnArgs.items, QInt(t), 1,
                                     fnOut.result)]
  /\ UNCHANGED <<pipeVars, jobVars, poolVars, poolHist, countVars, calls,
                 sortMemo, fn, fnArgs, histVars>>

NextCompletion == EvaluateInterpolations

SpecCompletion == InitCompletion /\ [][NextCompletion]_vars

----------------------------------------------------------------------------
(* NDC depth bias of a surface item in DepthCollect and in PrepareDraw *)

INPUT_FLAG_ENABLE_NDC_BIAS_SURFACE == 4

\* (inputFlags & flag) != 0 for a flag of one bit
InputFlagSet(inputFlags, flag) == (inputFlags \div flag) % 2 = 1

\* std::fmin(a, b): the smaller; the other one if one is a NaN
QFmin(a, b) ==
  IF a.k = "nan" THEN b
  ELSE IF b.k = "nan" THEN a
  ELSE IF QLess(b, a) THEN b ELSE a

\* subLayer * orderBucket + fmin(order, orderMax - 1) (lines 1535-1538 and
\* 1846-1848)
biasIndexOf(a) ==
  QAdd(QMul(a.subLayer, a.orderBucket),
       QFmin(a.order, QSub(a.orderMax, QOne)))

\* prepareDrawSpriteImages hands ctx.enableSurfaceBias to DepthCollect
\* (lines 2802-2804, 2866-2870); processDepthRange makes the bias of it
\* (lines 1534-1539) and __calculateSurfaceDepthKey the clip z of a corner
depthCollectBias(a) ==
  LET enableSurfaceBias ==
        InputFlagSet(a.inputFlags, INPUT_FLAG_ENABLE_NDC_BIAS_SURFACE)
          /\ a.enableNdcBiasSurface
      applyBias == enableSurfaceBias
      depthBiasNdc == IF applyBias THEN QNeg(QMul(biasIndexOf(a), a.epsNdc))
                      ELSE QFin(FZero)
  IN  [enabled |-> enableSurfaceBias,
       depthBiasNdc |-> depthBiasNdc,
       applied |-> applyBias,
       clipZ |-> biasedClipZ(a.corner, applyBias, depthBiasNdc,
                             a.minClipZEpsilon)]

\* prepareDrawSpriteImageInternal takes the switch from the frame constants
\* (line 1736), makes the bias of it (lines 1846-1850) and moves the clip z
\* of a corner if the bias is not 0.0 (lines 1894-1898)
prepareDrawBias(a) ==
  LET enableSurfaceBias == a.enableNdcBiasSurface
      depthBiasNdc == IF enableSurfaceBias
                      THEN QNeg(QMul(biasIndexOf(a), a.epsNdc))
                      ELSE QFin(FZero)
      applied == depthBiasNdc # QFin(FZero)
  IN  [enabled |-> enableSurfaceBias,
       depthBiasNdc |-> depthBiasNdc,
       applied |-> applied,
       clipZ |-> biasedClipZ(a.corner, applied, depthBiasNdc,
                             a.minClipZEpsilon)]

MaxInputFlags == 7
BiasOrderDomain == {QInt(0), QInt(1), QInt(5), QNaN}

InitBias ==
  /\ PipeStart(LayoutHeader(Len(ResourceList), 0, 0), FrameClip,
               [res |-> ResTableOf(Len(ResourceList)), items |-> <<>>])
  /\ JobsIdle
  /\ g_threadPoolLimit = NoLimit
  /\ headerPoolLimit = NoLimit
  /\ hardwareConcurrency = 0
  /\ lastPoolArg = [k |-> "none", h |-> 0]
  /\ wcPhase = "none"
  /\ wcTotal = 0
  /\ wcCount = 0
  /\ calls = <<>>
  /\ sortMemo = {}
  /\ fn = "none"
  /\ fnOut = <<>>
  /\ \E inputFlags \in 0..MaxInputFlags, enable \in BOOLEAN,
        subLayer \in {QInt(0), QInt(1)}, order \in BiasOrderDomain,
        epsNdc \in {QFin(FZero), QFin(FPow2Neg(4))},
        clipZ \in {QInt(-2), QInt(0)} :
       fnArgs = [inputFlags |-> inputFlags, enableNdcBiasSurface |-> enable,
                 subLayer |-> subLayer, order |-> order,
                 orderBucket |-> QInt(4), orderMax |-> QInt(4),
                 epsNdc |-> epsNdc,
                 minClipZEpsilon |-> QFin(FPow2Neg(HugeLog2)),
                 corner |-> [clipZ |-> clipZ, clipW |-> QOne]]

\* DepthCollect reaches the surface item
BiasInDepthCollect ==
  /\ fn = "none"
  /\ fn' = "processDepthRange"
  /\ fnOut' = <<depthCollectBias(fnArgs)>>
  /\ UNCHANGED <<pipeVars, jobVars, poolVars, poolHist, countVars, calls,
                 sortMemo, fnArgs, histVars>>

\* PrepareDraw reaches it
BiasInPrepareDraw ==
  /\ fn = "processDepthRange"
  /\ fn' = "prepareDrawSpriteImageInternal"
  /\ fnOut' = Append(fnOut, prepareDrawBias(fnArgs))
  /\ UNCHANGED <<pipeVars, jobVars, poolVars, poolHist, countVars, calls,
                 sortMemo, fnArgs, histVars>>

NextBias == BiasInDepthCollect \/ BiasInPrepareDraw

SpecBias == InitBias /\ [][NextBias]_vars

----------------------------------------------------------------------------
(* Properties: Decode *)

\* itemOffset + itemCount * ITEM_STRIDE > totalLength on the header fields
\* as Decode reads them (through convertToSizeT), the product below 2^32.
\* The comparison moves the offset to the other side, so that the
\* property computes nothing the code computes.
ItemSpanOutOfBounds(h) ==
  LET dec == DecodeHeader(h)
  IN  /\ convertToSizeT(h.totalLength).ok
      /\ convertToSizeT(h.itemCount).ok
      /\ convertToSizeT(h.itemOffset).ok
      /\ dec.itemCount <= WrapItemCount - 1
      /\ \/ dec.itemOffset > dec.totalLength
         \/ dec.itemCount > (dec.totalLength - dec.itemOffset) \div ITEM_STRIDE

\* count records of stride doubles at offset lie inside [0, totalLength],
\* in exact arithmetic
SpanFitsExactly(totalLength, offset, count, stride) ==
  /\ offset <= totalLength
  /\ count <= (totalLength - offset) \div stride

AllSpansFitExactly(h) ==
  LET dec == DecodeHeader(h)
  IN  /\ SpanFitsExactly(dec.totalLength, INPUT_HEADER_LENGTH,
                         INPUT_FRAME_CONSTANT_LENGTH, 1)
      /\ SpanFitsExactly(dec.totalLength, dec.matrixOffset,
                         INPUT_MATRIX_LENGTH, 1)
      /\ SpanFitsExactly(dec.totalLength, dec.resourceOffset,
                         dec.resourceCount, RESOURCE_STRIDE)
      /\ SpanFitsExactly(dec.totalLength, dec.spriteOffset,
                         dec.spriteCount, SPRITE_STRIDE)
      /\ SpanFitsExactly(dec.totalLength, dec.itemOffset,
                         dec.itemCount, ITEM_STRIDE)

AllSlotsStale == \A i \in 1..Len(outSlots) : outSlots[i] = StaleRecord

\* C1: a header whose item span is out of bounds, the product
\* itemCount * 27 not wrapping, makes prepareDrawSpriteImages return false
\* with preparedCount 0 in the output header.
C1_ItemSpanOutOfBoundsRejected ==
  (pc # "start" /\ ItemSpanOutOfBounds(hdr))
    => /\ pc = "done"
       /\ ret = FALSE
       /\ outHeader.preparedCount = 0

\* C1 witness: a returned call whose header is fine but for its item span
C1_Witness ==
  /\ pc = "done"
  /\ ItemSpanOutOfBounds(hdr)
  /\ DecodeHeader([hdr EXCEPT !.itemCount = D(0)]).ok
  /\ convertToSizeT(hdr.itemCount).val > 0

\* C2: whenever Decode accepts the header, every span the call reads lies
\* inside [0, totalLength] in exact arithmetic; no header whose
\* count * stride wraps modulo 2^32 is accepted.
C2_AcceptedSpansInBounds ==
  (pc # "start" /\ DecodeHeader(hdr).ok) => AllSpansFitExactly(hdr)

\* C3: a call that fails on a buffer-level error returns false having
\* written only the reset header (0, 131, 36, 4, 0, 0, 0) to the output
\* buffer; no item record slot is modified.
C3_FailureWritesOnlyResetHeader ==
  (pc # "start" /\ ~DecodeHeader(hdr).ok)
    => /\ pc = "done"
       /\ ret = FALSE
       /\ outHeader = [preparedCount |-> 0, itemStride |-> 131,
                       vertexComponentCount |-> 36, surfaceCornerCount |-> 4,
                       flags |-> 0, reserved0 |-> 0, reserved1 |-> 0]
       /\ AllSlotsStale

\* C3 witness: a call that failed on an out-of-bounds span alone
C3_Witness ==
  /\ pc = "done"
  /\ ret = FALSE
  /\ convertToSizeT(hdr.totalLength).ok
  /\ convertToSizeT(hdr.frameConstCount).val = INPUT_FRAME_CONSTANT_LENGTH
  /\ convertToSizeT(hdr.matrixOffset).ok
  /\ ~AllSpansFitExactly(hdr)
  /\ Len(outSlots) > 0

\* C4: a per-item failure never fails the batch: every call whose header
\* passes Decode validation comes to return true (it does not end without
\* a return value, and when it has returned it returned true).
C4_ValidatedCallReturnsTrue ==
  DecodeHeader(hdr).ok
    => /\ pc # "trap"
       /\ pc = "done" => ret = TRUE

----------------------------------------------------------------------------
(* Properties: Sort *)

\* The four keys of item i (1-based index in the item table)
KeysOf(i) ==
  [depthKey |-> calculateDepthKey(itemTable[i]).key,
   order |-> itemTable[i].order,
   spriteHandle |-> bucketItems[i].spriteHandle,
   imageHandle |-> itemTable[i].imageHandle]

DEqual(a, b) == ~DNotEqual(a, b)
DLessOrEqual(a, b) == DLess(a, b) \/ DEqual(a, b)

\* a <= b in the lexicographic order of the four keys
KeysLessOrEqual(a, b) ==
  \/ DLess(a.depthKey, b.depthKey)
  \/ /\ DEqual(a.depthKey, b.depthKey)
     /\ \/ DLess(a.order, b.order)
        \/ /\ DEqual(a.order, b.order)
           /\ \/ a.spriteHandle < b.spriteHandle
              \/ /\ a.spriteHandle = b.spriteHandle
                 /\ DLessOrEqual(a.imageHandle, b.imageHandle)

KeysEqual(a, b) ==
  /\ DEqual(a.depthKey, b.depthKey)
  /\ DEqual(a.order, b.order)
  /\ a.spriteHandle = b.spriteHandle
  /\ DEqual(a.imageHandle, b.imageHandle)

Returned == pc = "done" /\ ret = TRUE

\* C5: the records of the output buffer are in non-decreasing
\* lexicographic order of (depthKey, order, spriteHandle, imageHandle):
\* each record's keys are less than or equal to its successor's.
C5_OutputInKeyOrder ==
  Returned =>
    \A i \in 1..(outHeader.preparedCount - 1) :
      KeysLessOrEqual(KeysOf(outSlots[i].src), KeysOf(outSlots[i + 1].src))

\* C6: Sort is stable: two items equal on all four keys stand in the
\* sorted sequence in the order of their indices in the item table.
C6_SortIsStable ==
  pc \in {"prepare", "prepareRun", "pack", "done"} =>
    \A i, j \in 1..Len(depthItems) :
      (i < j /\ KeysEqual(KeysOf(depthItems[i].item),
                          KeysOf(depthItems[j].item)))
        => depthItems[i].item < depthItems[j].item

\* C7: every item that reaches Sort has non-NaN depthKey, order and
\* imageHandle, and the comparator is a strict weak ordering of the items
\* being sorted (irreflexive, transitive, incomparability transitive).
C7_SortKeysNotNaN ==
  pc = "sort" =>
    /\ \A i \in 1..Len(depthItems) :
         /\ ~IsNaN(depthItems[i].depthKey)
         /\ ~IsNaN(KeysOf(depthItems[i].item).order)
         /\ ~IsNaN(KeysOf(depthItems[i].item).imageHandle)
    /\ IsStrictWeakOrder(itemTable, bucketItems, depthItems)

----------------------------------------------------------------------------
(* Properties: parallel phases *)

\* Single-threaded execution of the stages on the input
SequentialBuckets ==
  precomputeBucketCenters(itemTable,
    [i \in 1..Len(itemTable) |-> DecodeBucketItem(itemTable, resources, i)])

SequentialDepth ==
  processDepthRange(itemTable, resources, SequentialBuckets,
                    0, Len(itemTable))

SequentialStage ==
  prepareRange(itemTable, resources, bucketItems, frame, depthItems,
               StageOf([i \in 1..Len(depthItems) |-> ZeroRecord],
                       ZeroFlags(Len(depthItems)), ZeroFlags(Len(depthItems)),
                       ZeroFlags(Len(depthItems))),
               0, Len(depthItems))

SequentialPack ==
  PackResult(SequentialStage, Len(itemTable),
             [i \in 1..Len(outSlots) |-> StaleRecord])

\* C8: the output does not depend on parallelism: with any worker count
\* and any interleaving of the workers, what DepthCollect hands to Sort,
\* what PrepareDraw stages from the sorted items and what Pack writes to
\* the output buffer are what single-threaded execution gives.
C8_OutputIndependentOfWorkers ==
  /\ pc = "sort" => depthItems = SequentialDepth.items
  /\ pc \in {"sort", "prepare", "prepareRun", "pack"} \/ Returned
       => bucketItems = SequentialDepth.buckets
  /\ pc = "pack" => CurrentStage = SequentialStage
  /\ Returned =>
       /\ outSlots = SequentialPack.slots
       /\ outHeader = PackHeader(initializeResultHeader, SequentialPack)

\* C8 witness: a returned call that ran both phases on two workers or
\* more, each with items of its own, and packed two records or more
C8_Witness ==
  /\ Returned
  /\ Len(depthWorkers) >= 2
  /\ \A w \in 1..Len(depthWorkers) : workerOutputs[w] # <<>>
  /\ Len(prepWorkers) >= 2
  /\ outHeader.preparedCount >= 2
  /\ outHeader.preparedCount < Len(depthItems)

StagingArrays ==
  {"stagedResults", "preparedFlags", "hitTestFlags", "surfaceFlags"}

\* C9: in a parallel phase no location is written by one worker and
\* accessed by another, and a worker writes only its own output vector or
\* staging and flag slots of indices inside its own range.
C9_WorkersWriteDisjointLocations ==
  /\ \A a, b \in acc :
       (a.w # b.w /\ a.loc = b.loc) => (~a.wr /\ ~b.wr)
  /\ \A a \in acc :
       a.wr =>
         \/ a.loc[1] = "workerOutputs" /\ a.loc[2] = a.w
         \/ /\ a.loc[1] \in StagingArrays
            /\ a.w \in 1..Len(prepWorkers)
            /\ prepWorkers[a.w].start < a.loc[2]
            /\ a.loc[2] <= prepWorkers[a.w].end

\* C9 witness: PrepareDraw workers have written slots of their own and
\* read a bucket item in common
C9_Witness ==
  /\ pc = "prepareRun"
  /\ \E a, b \in acc : a.w # b.w /\ a.wr /\ b.wr
  /\ \E a, b \in acc : a.w # b.w /\ a.loc = b.loc

\* The ranges of the started workers are contiguous from 0, not empty and
\* inside [0, n); once the spawn loop has ended they reach n.
RangesPartition(workers, n, ended) ==
  /\ \A w \in 1..Len(workers) :
       /\ workers[w].start = IF w = 1 THEN 0 ELSE workers[w - 1].end
       /\ workers[w].start < workers[w].end
       /\ workers[w].end <= n
       /\ workers[w].start <= workers[w].next
       /\ workers[w].next <= workers[w].end
  /\ ended => IF n = 0 THEN workers = <<>>
              ELSE workers # <<>> /\ workers[Len(workers)].end = n

\* C10: for every totalItems and workerCount the ranges dispatched by
\* runWorkerJobs and by the loops of DepthCollect and PrepareDraw are
\* contiguous, disjoint and cover exactly [0, N); at most workerCount
\* workers are started and job handles every index exactly once.
C10_RangesPartitionItems ==
  /\ jobW > 1 /\ jobN > 0
       => RangesPartition(jobWorkers, jobN, jobPc \in {"join", "done"})
  /\ Len(jobWorkers) <= jobW
  /\ \A i \in 1..jobN : jobHits[i] <= 1
  /\ jobPc = "done" => \A i \in 1..jobN : jobHits[i] = 1
  /\ depthWorkerCount > 1
       => RangesPartition(depthWorkers, Len(bucketItems),
            pc # "depthRun" \/ SpawnLoopEnded(depthSpawned, Len(bucketItems),
                                              depthWorkerCount))
  /\ Len(depthWorkers) <= depthWorkerCount
  /\ prepWorkerCount > 1
       => RangesPartition(prepWorkers, Len(depthItems),
            pc # "prepareRun" \/ SpawnLoopEnded(prepSpawned, Len(depthItems),
                                                prepWorkerCount))
  /\ Len(prepWorkers) <= prepWorkerCount

\* C10 witness: runWorkerJobs has returned having started several workers,
\* fewer than workerCount, while the DepthCollect workers hold their ranges
C10_Witness ==
  /\ jobPc = "done"
  /\ Len(jobWorkers) >= 2
  /\ Len(jobWorkers) < jobW
  /\ pc = "depthRun"
  /\ Len(depthWorkers) >= 2

----------------------------------------------------------------------------
(* Properties: stage order *)

StageOrder ==
  <<"Decode", "Precompute", "DepthCollect", "Sort", "PrepareDraw", "Pack">>

Entered(name) == \E i \in 1..Len(stage) : stage[i] = name

\* Every started worker of a phase has run its range to the end and the
\* spawn loop of the phase is over
AllJoined(workers, spawned, total, workerCount) ==
  /\ \A w \in 1..Len(workers) :
       /\ workers[w].next >= Min(workers[w].end, total)
       /\ workers[w].next >= workers[w].start
  /\ Len(workers) = spawned
  /\ workerCount > 1 => SpawnLoopEnded(spawned, total, workerCount)

\* C11: the stages are entered in the order Decode, Precompute,
\* DepthCollect, Sort, PrepareDraw, Pack, each at most once and none after a
\* later one; Sort is entered only when every DepthCollect worker has run
\* to the end of its range and the spawn loop is over, Pack only when every
\* PrepareDraw worker has; the call returns true only after Pack has
\* written preparedCount and flags into the header, and returns false only
\* out of Decode.
C11_StagesInOrder ==
  /\ Len(stage) <= Len(StageOrder)
  /\ \A i \in 1..Len(stage) : stage[i] = StageOrder[i]
  /\ Entered("Sort") =>
       AllJoined(depthWorkers, depthSpawned, Len(bucketItems),
                 depthWorkerCount)
  /\ Entered("Pack") =>
       AllJoined(prepWorkers, prepSpawned, Len(depthItems), prepWorkerCount)
  /\ Returned =>
       /\ stage = StageOrder
       /\ outHeader =
            PackHeader(initializeResultHeader,
                       PackResult(CurrentStage, Len(bucketItems),
                                  [i \in 1..Len(outSlots) |-> StaleRecord]))
  /\ (pc = "done" /\ ~Returned) => stage = <<"Decode">>
  /\ pc # "done" => ~Entered("Pack")

\* A call that ran both parallel phases on two workers each has returned
C11_Witness ==
  /\ Returned
  /\ Len(depthWorkers) >= 2
  /\ Len(prepWorkers) >= 2
  /\ \E w \in 1..Len(prepWorkers) : prepWorkers[w].next > prepWorkers[w].start

----------------------------------------------------------------------------
(* Properties: worker pool *)

PhaseThreshold ==
  CASE wcPhase = "depth" -> DEPTH_PARALLEL_MIN_ITEMS
    [] wcPhase = "prepare" -> PREPARE_PARALLEL_MIN_ITEMS
    [] OTHER -> INTERPOLATION_PARALLEL_MIN_ITEMS

PhaseSlice ==
  CASE wcPhase = "depth" -> DEPTH_PARALLEL_SLICE
    [] wcPhase = "prepare" -> PREPARE_PARALLEL_SLICE
    [] OTHER -> INTERPOLATION_PARALLEL_SLICE

\* The override the phase's function reads
PhaseLimit ==
  IF wcPhase = "interpolation" THEN headerPoolLimit ELSE g_threadPoolLimit

CeilDiv(a, b) == (a + b - 1) \div b

\* C12 as stated: the count is 1 below the phase's threshold, otherwise
\* min(M, ceil(itemCount / sliceSize)) where M is the override if one is
\* set and the hardware concurrency if not.
C12_CountIsMinOfOverrideAndCeil ==
  wcPhase # "none" =>
    wcCount =
      IF wcTotal < PhaseThreshold THEN 1
      ELSE IF PhaseLimit = NoLimit
           THEN Min(EffectiveHardware, CeilDiv(wcTotal, PhaseSlice))
           ELSE MinWithLimit(CeilDiv(wcTotal, PhaseSlice), PhaseLimit)

\* C12, amended: the count is 1 below the phase's threshold, otherwise the
\* least of the hardware concurrency (4 when it is unknown), the override
\* if one is set, and itemCount / sliceSize rounded down; it is always at
\* least 1.
C12_CountIsMinOfHardwareOverrideAndFloor ==
  wcPhase # "none" =>
    /\ wcCount >= 1
    /\ wcCount =
         IF wcTotal < PhaseThreshold THEN 1
         ELSE LET bySize == wcTotal \div PhaseSlice
                  M == IF PhaseLimit = NoLimit THEN EffectiveHardware
                       ELSE MinWithLimit(EffectiveHardware, PhaseLimit)
              IN  Min(M, bySize)

\* DepthCollect over a count that is no slice multiple, under an override
\* below the hardware concurrency, gets more than one worker
C12_Witness ==
  /\ wcPhase = "depth"
  /\ wcTotal >= DEPTH_PARALLEL_MIN_ITEMS
  /\ wcTotal % DEPTH_PARALLEL_SLICE # 0
  /\ g_threadPoolLimit # NoLimit
  /\ LimbsGreater(Limbs(EffectiveHardware), g_threadPoolLimit)
  /\ wcCount >= 2

\* round(v) of a finite positive v below 2^32, in whole workers
RoundOf(v) == IF v.k = "tiny" THEN 0 ELSE FloorPlusHalf(v.h)

\* No parallel phase of the running (or last) invocation was given, or has
\* started, more than r workers
PhasesWithin(r) ==
  /\ depthWorkerCount <= r
  /\ prepWorkerCount <= r
  /\ Len(depthWorkers) <= r
  /\ Len(prepWorkers) <= r

\* A call with +infinity has just been made
InfinityCall == lastPoolArg' = Inf /\ lastPoolArg # Inf

----------------------------------------------------------------------------
(* Properties: Pack *)

\* PrepareDraw succeeds for the depth item at (1-based) position i
PrepareSucceeds(i) ==
  prepareDrawSpriteImageInternal(itemTable, resources, bucketItems, frame,
                                 depthItems[i]).ok

\* The positions of the sorted depth items that PrepareDraw succeeds for,
\* in sorted order
PreparedPositions ==
  SelectSeq([i \in 1..Len(depthItems) |-> i], PrepareSucceeds)

\* C14: when the call has returned true, preparedCount is the number of
\* depth-sorted items whose PrepareDraw succeeded; the record slots
\* 1..preparedCount directly after the header hold the records of exactly
\* those items, in their sorted order, and no slot after them was written;
\* no input item has two records; preparedCount <= itemCount.
C14_PackWritesPreparedItems ==
  Returned =>
    /\ outHeader.preparedCount = Len(PreparedPositions)
    /\ outHeader.preparedCount <= Len(itemTable)
    /\ outHeader.preparedCount <= Len(outSlots)
    /\ \A j \in 1..Len(PreparedPositions) :
         outSlots[j] = ResultRecord(itemTable, resources, bucketItems, frame,
                                    depthItems[PreparedPositions[j]])
    /\ \A j \in (Len(PreparedPositions) + 1)..Len(outSlots) :
         outSlots[j] = StaleRecord
    /\ \A j, k \in 1..Len(PreparedPositions) :
         j # k => outSlots[j].src # outSlots[k].src

\* An item whose preparation failed lies, in sorted order, before one that
\* was packed
C14_Witness ==
  /\ Returned
  /\ outHeader.preparedCount >= 2
  /\ \E i, j \in 1..Len(depthItems) :
       i < j /\ ~PrepareSucceeds(i) /\ PrepareSucceeds(j)

\* Bit 0 (value 1) and bit 1 (value 2) of the header's flags field
FlagBit(flags, value) == (flags \div value) % 2 = 1

\* What PrepareDraw reports for the depth item at position i
PrepareOutcome(i) ==
  prepareDrawSpriteImageInternal(itemTable, resources, bucketItems, frame,
                                 depthItems[i])

\* C15: when the call has returned true, bit 0 of the header's flags is set
\* iff PrepareDraw produced hit-test data for at least one packed item and
\* bit 1 iff it produced a surface-shader block for at least one packed
\* item; an item whose preparation failed is not packed and sets no bit.
C15_FlagsSummarisePackedItems ==
  Returned =>
    /\ outHeader.flags \in 0..3
    /\ FlagBit(outHeader.flags, RESULT_FLAG_HAS_HIT_TEST) <=>
         \E j \in 1..Len(PreparedPositions) :
           PrepareOutcome(PreparedPositions[j]).hitTest
    /\ FlagBit(outHeader.flags, RESULT_FLAG_HAS_SURFACE_INPUTS) <=>
         \E j \in 1..Len(PreparedPositions) :
           PrepareOutcome(PreparedPositions[j]).surfaceInputs
    /\ \A i \in 1..Len(depthItems) :
         ~PrepareSucceeds(i) =>
           /\ hitTestFlags[i] = 0
           /\ surfaceFlags[i] = 0
           /\ \A j \in 1..outHeader.preparedCount :
                outSlots[j].src # depthItems[i].item

\* Both bits are set by packed items while another depth item failed
C15_Witness ==
  /\ Returned
  /\ outHeader.flags = 3
  /\ \E i \in 1..Len(depthItems) : ~PrepareSucceeds(i)

----------------------------------------------------------------------------
(* Properties: origin references *)

\* Item i names an origin by index, and the index is outside the table or
\* is that of an item of another sprite
OriginIndexUnresolvable(i) ==
  LET entry == itemTable[i]
      originIndex == convertToInt64(entry.originTargetIndex)
  IN  /\ originIndex.ok
      /\ originIndex.val # SPRITE_ORIGIN_REFERENCE_INDEX_NONE
      /\ \/ originIndex.val < 0
         \/ originIndex.val >= Len(itemTable)
         \/ DNotEqual(itemTable[originIndex.val + 1].spriteHandle,
                      entry.spriteHandle)

\* The item table with item i carrying no origin at all
WithoutOrigin(i) ==
  [itemTable EXCEPT ![i].originTargetIndex =
                      D(SPRITE_ORIGIN_REFERENCE_INDEX_NONE),
                    ![i].originSubLayer = D(-1),
                    ![i].originOrder = D(-1)]

\* The record PrepareDraw builds for item i when the item table is tbl
RecordOf(tbl, i) ==
  ResultRecord(tbl, resources, bucketItems, frame, [item |-> i])

\* C16: when the call has returned true, the record of every packed item
\* (billboard or surface) whose origin index is out of range or names an
\* item of another sprite is identical to the record of the same item with
\* originTargetIndex = -1 and no origin sub-layer and order.
C16_UnresolvableOriginIsAbsent ==
  Returned =>
    \A j \in 1..outHeader.preparedCount :
      OriginIndexUnresolvable(outSlots[j].src)
        => outSlots[j] = RecordOf(WithoutOrigin(outSlots[j].src),
                                  outSlots[j].src)

\* The item of the same sprite that has the sub-layer and order item i
\* names as its origin pair (0 when there is none)
PairTarget(i) ==
  LET entry == itemTable[i]
      hits == {t \in 1..Len(itemTable) :
                 /\ t # i
                 /\ itemTable[t].spriteHandle = entry.spriteHandle
                 /\ itemTable[t].subLayer = entry.originSubLayer
                 /\ itemTable[t].order = entry.originOrder}
  IN  IF hits = {} THEN 0 ELSE CHOOSE t \in hits : TRUE

\* Item i names its origin by a pair only
OriginByPair(i) ==
  /\ DGreaterOrEqual(itemTable[i].originSubLayer, D(0))
  /\ DGreaterOrEqual(itemTable[i].originOrder, D(0))
  /\ itemTable[i].originTargetIndex = D(SPRITE_ORIGIN_REFERENCE_INDEX_NONE)

\* The item table with item i naming item t by index instead
WithIndexOrigin(i, t) ==
  [itemTable EXCEPT ![i].originTargetIndex = D(t - 1),
                    ![i].originSubLayer = D(-1),
                    ![i].originOrder = D(-1)]

\* C17: when the call has returned true, the record of every packed item
\* whose origin is a (sub-layer, order) pair with originTargetIndex = -1,
\* and whose sprite has an item with that sub-layer and order, is built
\* from the same base position as if the item named that item by index.
C17_PairOriginResolvesLikeIndex ==
  Returned =>
    \A j \in 1..outHeader.preparedCount :
      LET i == outSlots[j].src
      IN  (OriginByPair(i) /\ PairTarget(i) # 0)
            => outSlots[j].base
                 = RecordOf(WithIndexOrigin(i, PairTarget(i)), i).base

\* C18: every invocation, whatever origin references its items carry
\* (self-references and cycles among items of one sprite included),
\* eventually returns.
C18_InvocationReturns == <>(pc = "done")

----------------------------------------------------------------------------
(* Properties: item guards *)

\* The input record's resource handle names an entry of the resource
\* table, and that entry's texture is ready
ResourceReady(entry) ==
  /\ entry.resourceHandle.k = "fin"
  /\ entry.resourceHandle.h >= 0
  /\ entry.resourceHandle.h % 2 = 0
  /\ entry.resourceHandle.h \div 2 < Len(resTable)
  /\ resTable[entry.resourceHandle.h \div 2 + 1].textureReady

\* Every guard of DepthCollect holds for the input record
PassesGuards(entry) ==
  /\ ResourceReady(entry)
  /\ entry.projOk
  /\ entry.eppmOk
  /\ entry.clipOk
  /\ IsFinite(entry.ndcZ)

\* C19: when the call has returned true, every packed record belongs to an
\* item whose resource handle resolves to a resource with textureReady,
\* whose initial projection is valid, whose effective pixels per meter is
\* finite and positive and whose depth key could be computed; an item that
\* fails one of these has no record.
C19_PackedItemsPassGuards ==
  Returned =>
    /\ \A j \in 1..outHeader.preparedCount :
         PassesGuards(itemTable[outSlots[j].src])
    /\ \A i \in 1..Len(itemTable) :
         ~PassesGuards(itemTable[i])
           => \A j \in 1..outHeader.preparedCount : outSlots[j].src # i

\* One item was packed and the other, on the resource that is not ready,
\* was not
C19_Witness ==
  /\ Returned
  /\ outHeader.preparedCount = 1
  /\ Len(itemTable) = 2
  /\ \E i \in 1..2 : itemTable[i] = NotReadyItem

----------------------------------------------------------------------------
(* Properties: purity *)

\* The finished invocation c was given the buffers of the current one
SameInput(c) ==
  /\ c.hdr = hdr
  /\ c.frame = frame
  /\ c.resTable = resTable
  /\ c.itemTable = itemTable

----------------------------------------------------------------------------
(* Properties: pixel clamping *)

\* Pixels per unit of the clamped size
PixelsPerUnit ==
  IF fn = "clampSpritePixelSize" THEN FOne ELSE fnArgs.effectivePixelsPerMeter

\* The larger dimension of the raw size and of the clamped size
RawLargest == FMax(fnArgs.width, fnArgs.height)
ClampedLargest == FMax(fnOut.width, fnOut.height)

\* x units are fewer than, as many as, more than bound pixels
UnitsBelow(x, bound) == ProductsCompare(x, PixelsPerUnit, bound, FOne) < 0
UnitsEqual(x, bound) == ProductsCompare(x, PixelsPerUnit, bound, FOne) = 0
UnitsAbove(x, bound) == ProductsCompare(x, PixelsPerUnit, bound, FOne) > 0

BoundsOrdered ==
  /\ FLess(FZero, fnArgs.spriteMinPixel)
  /\ FLessEq(fnArgs.spriteMinPixel, fnArgs.spriteMaxPixel)

\* C21: for a positive raw size and bounds 0 < spriteMinPixel <=
\* spriteMaxPixel the larger dimension of the clamped size is spriteMinPixel
\* if the raw one was below it, spriteMaxPixel if it was above, and the raw
\* one otherwise; width and height are both the raw ones times
\* scaleAdjustment; a bound <= 0 changes nothing.
C21_LargerDimensionClamped ==
  /\ (fn # "none" /\ ~FLess(FZero, fnArgs.spriteMinPixel)
        /\ (~FLess(FZero, fnArgs.spriteMaxPixel)
              \/ ~UnitsAbove(RawLargest, fnArgs.spriteMaxPixel)))
       => /\ FEq(fnOut.width, fnArgs.width)
          /\ FEq(fnOut.height, fnArgs.height)
          /\ FEq(fnOut.scaleAdjustment, FOne)
  /\ (fn # "none" /\ BoundsOrdered) =>
    /\ UnitsBelow(RawLargest, fnArgs.spriteMinPixel)
         => UnitsEqual(ClampedLargest, fnArgs.spriteMinPixel)
    /\ UnitsAbove(RawLargest, fnArgs.spriteMaxPixel)
         => UnitsEqual(ClampedLargest, fnArgs.spriteMaxPixel)
    /\ (~UnitsBelow(RawLargest, fnArgs.spriteMinPixel)
          /\ ~UnitsAbove(RawLargest, fnArgs.spriteMaxPixel))
         => FEq(ClampedLargest, RawLargest)
    /\ ProductsCompare(fnOut.width, FOne,
                       fnArgs.width, fnOut.scaleAdjustment) = 0
    /\ ProductsCompare(fnOut.height, FOne,
                       fnArgs.height, fnOut.scaleAdjustment) = 0

----------------------------------------------------------------------------
(* Properties: anchor and offset neutrality *)

\* C22: an item with anchor 0, offset meters 0 and no origin reference has
\* its anchor-applied center and its anchorless center both equal to its
\* initial screen projection, as a billboard and as a surface item.
C22_NeutralItemStaysOnBasePoint ==
  (fn = "computeImageCenter" /\ FEq(fnArgs.anchorX, FZero)
     /\ FEq(fnArgs.offsetMeters, FZero))
    => /\ FEq(fnOut.anchorAppliedCenter, fnOut.basePoint)
       /\ FEq(fnOut.anchorlessCenter, fnOut.basePoint)

----------------------------------------------------------------------------
(* Properties: perspective ratio *)

\* No ratio can be had from the arguments
RatioUnavailable ==
  \/ ~fnArgs.hasMatrix
  \/ QNotPositive(fnArgs.cameraToCenterDistance)
  \/ ~QIsFinite(fnArgs.clipW)
  \/ QNotPositive(fnArgs.clipW)
  \/ ~QIsFinite(QDiv(fnArgs.cameraToCenterDistance, fnArgs.clipW))
  \/ QNotPositive(QDiv(fnArgs.cameraToCenterDistance, fnArgs.clipW))

\* C23: the perspective ratio the orchestrator uses is finite and positive:
\* 1.0 when the matrix is absent, cameraToCenterDistance <= 0, clip w is
\* non-finite or <= 0, or the quotient is non-finite or <= 0, and
\* cameraToCenterDistance / clipW otherwise; with no ratio to be had an item
\* whose pixels per meter are usable at ratio 1.0 is kept.
C23_PerspectiveRatioNeutralOrQuotient ==
  (fn = "ensureBucketEffectivePixelsPerMeter" /\ fnOut.evaluated) =>
    /\ QIsFinite(fnOut.perspectiveRatio) /\ QPositive(fnOut.perspectiveRatio)
    /\ RatioUnavailable => fnOut.perspectiveRatio = QOne
    /\ ~RatioUnavailable
         => fnOut.perspectiveRatio
              = QDiv(fnArgs.cameraToCenterDistance, fnArgs.clipW)
    /\ (RatioUnavailable
          /\ QIsFinite(QDiv(QOne, fnArgs.metersPerPixelAtLat))
          /\ QPositive(QDiv(QOne, fnArgs.metersPerPixelAtLat)))
         => fnOut.ok

\* A ratio was unavailable (cameraToCenterDistance is NaN) and the item kept
C23_Witness ==
  /\ fn = "ensureBucketEffectivePixelsPerMeter"
  /\ fnArgs.hasMatrix
  /\ fnArgs.cameraToCenterDistance = QNaN
  /\ fnArgs.clipW = QOne
  /\ fnOut.perspectiveRatio = QOne
  /\ fnOut.ok

----------------------------------------------------------------------------
(* Properties: surface geometry is computed once *)

\* C24: the world dimensions, offset meters and corner displacements of a
\* surface item are computed in DepthCollect and nowhere else (PrepareDraw
\* takes them from the depth item), and a surface item is packed only if
\* its depth item carries them.
C24_SurfaceGeometryComputedOnce ==
  /\ \A c \in geometryCalls : c.stage = "DepthCollect"
  /\ pc = "done" =>
       \A n \in 1..Len(depthItems) :
         (preparedFlags[n] = 1
            /\ isSurface(itemTable[bucketItems[depthItems[n].item].entry]))
           => depthItems[n].hasSurfaceData

----------------------------------------------------------------------------
(* Properties: memoized fields of a BucketItem *)

\* The memoized fields of bucket i
MemoOf(buckets, i) ==
  [hasEffectivePixelsPerMeter |-> buckets[i].hasEffectivePixelsPerMeter,
   hasResolvedAnchorCenter |-> buckets[i].hasResolvedAnchorCenter,
   hasAnchorlessCenter |-> buckets[i].hasAnchorlessCenter]

\* C25: the effective pixels per meter and the two centers of an item are
\* set during Precompute only: from DepthCollect on no step writes any
\* field of any BucketItem, and a field that is set stays as it is.
C25_BucketItemsWrittenBeforeParallelPhases ==
  [][/\ pc \notin {"start", "precompute"} => bucketItems' = bucketItems
     /\ pc = "precompute" =>
          /\ Len(bucketItems') = Len(bucketItems)
          /\ \A i \in 1..Len(bucketItems) :
               /\ bucketItems[i].hasEffectivePixelsPerMeter
                    => bucketItems'[i].hasEffectivePixelsPerMeter
               /\ MemoOf(bucketItems, i) = MemoOf(bucketItems', i)
                    => bucketItems'[i] = bucketItems[i]]_vars

\* A DepthCollect worker has run ensureBucketEffectivePixelsPerMeter on an
\* item whose value Precompute stored and on one for which it failed
C25_Witness ==
  /\ pc = "depthRun"
  /\ \E w \in 1..Len(depthWorkers) : depthWorkers[w].next > depthWorkers[w].start
  /\ \E i \in 1..Len(bucketItems) :
       /\ bucketItems[i].hasEffectivePixelsPerMeter
       /\ \E a \in acc : a.loc = <<"bucketItems", i, "eppm">>
  /\ \E i \in 1..Len(bucketItems) :
       /\ ~bucketItems[i].hasEffectivePixelsPerMeter
       /\ \E a \in acc : a.loc = <<"bucketItems", i, "eppm">>

----------------------------------------------------------------------------
(* Properties: surface depth key *)

\* Positions of indices that name a corner, and the corners they name
EvaluatedPositions ==
  {n \in 1..Len(fnArgs.indices) :
     fnArgs.indices[n] >= 0 /\ fnArgs.indices[n] < fnArgs.displacementCount}
EvaluatedCorners ==
  {fnArgs.corners[fnArgs.indices[n] + 1] : n \in EvaluatedPositions}

\* The larger of two values
QMax(a, b) == IF QLess(a, b) THEN b ELSE a

\* -(clipZ' / clipW) of a corner
DepthOfCorner(corner) ==
  LET clipZ == IF fnArgs.applyBias
               THEN QMax(QAdd(corner.clipZ,
                              QMul(fnArgs.biasNdc, corner.clipW)),
                         QAdd(QNeg(corner.clipW), fnArgs.minClipZEpsilon))
               ELSE corner.clipZ
  IN  QNeg(QDiv(clipZ, corner.clipW))

CornerFailsProjection(corner) ==
  \/ ~QIsFinite(corner.clipZ)
  \/ ~QIsFinite(corner.clipW)
  \/ ~QLess(MIN_CLIP_W, corner.clipW)

\* C26: the surface depth key is the largest -(clipZ' / clipW) of the
\* evaluated corners, clipZ' being max(clipZ + biasNdc * clipW,
\* -clipW + minClipZEpsilon) with bias and clipZ without; there is no key
\* if displacementCount or indexCount is <= 0, if an evaluated corner fails
\* the clip projection, or if no index is in range.
C26_SurfaceDepthKeyIsLargestCornerDepth ==
  fn = "__calculateSurfaceDepthKey" =>
    /\ (\/ fnArgs.displacementCount <= 0
        \/ Len(fnArgs.indices) <= 0
        \/ \E corner \in EvaluatedCorners : CornerFailsProjection(corner)
        \/ EvaluatedPositions = {})
         => ~fnOut.ok
    /\ fnOut.ok =>
         /\ \E corner \in EvaluatedCorners : fnOut.key = DepthOfCorner(corner)
         /\ \A corner \in EvaluatedCorners :
              ~QLess(fnOut.key, DepthOfCorner(corner))

\* A key was taken with bias over two corners of different depth, the
\* near-plane floor holding for one of them, the deeper corner coming first
C26_Witness ==
  /\ fn = "__calculateSurfaceDepthKey"
  /\ fnOut.ok
  /\ fnArgs.applyBias
  /\ fnArgs.biasNdc # QFin(FZero)
  /\ fnArgs.indices = <<0, 1>>
  /\ QLess(DepthOfCorner(fnArgs.corners[2]), DepthOfCorner(fnArgs.corners[1]))
  /\ \E corner \in EvaluatedCorners :
       QLess(QAdd(corner.clipZ, QMul(fnArgs.biasNdc, corner.clipW)),
             QAdd(QNeg(corner.clipW), fnArgs.minClipZEpsilon))

----------------------------------------------------------------------------
(* Properties: interpolation batches *)

\* The access lies in record `item` of its section: the input record for
\* a read, the result record for a write
InOwnRecord(a) ==
  LET sec == InterpolationSections(fnArgs.entry, fnArgs.counts)[a.section]
      length == IF a.wr THEN InterpolationResultLength(a.kind)
                ELSE InterpolationItemLength(a.kind)
      first == (IF a.wr THEN sec.write ELSE sec.cursor) + a.item * length
  IN  first <= a.loc[2] /\ a.loc[2] < first + length

\* C27: item i of a batch reads only input record i and writes only result
\* record i, for the distance, degree and sprite kinds; workers on disjoint
\* ranges never write one location; the result sections of
\* processInterpolations do not overwrite one another.
C27_ItemsKeepToTheirRecords ==
  /\ \A a \in acc : InOwnRecord(a)
  /\ \A a, b \in acc :
       (a.section = b.section /\ a.w # b.w /\ a.wr /\ b.wr) => a.loc # b.loc
  /\ \A a, b \in acc :
       (a.section # b.section /\ a.wr /\ b.wr) => a.loc # b.loc

----------------------------------------------------------------------------
(* Properties: interpolation completion *)

\* What the claim takes for the final value of item n: the final value
\* field of its result record (interpolation.cpp), its finalValue input
\* (calculation_host.cpp), its target position (sprite)
FinalValueOf(n) ==
  CASE fnArgs.variant = "batch" ->
         fnOut.result[(n - 1) * resultStride("batch") + 1]
    [] fnArgs.variant = "host" -> fnArgs.items[n].finalValue
    [] OTHER -> fnArgs.items[n].toLng

\* |target - from| > 1e-6
TargetApart(item) ==
  IF fnArgs.variant = "sprite"
  THEN \/ QLess(DISTANCE_EPSILON, QAbs(QSub(item.toLng, item.fromLng)))
       \/ item.hasZ /\ QLess(DISTANCE_EPSILON, QAbs(QSub(item.toZ, item.fromZ)))
  ELSE QLess(DISTANCE_EPSILON, QAbs(QSub(item.to, item.from)))

CompletionAsClaimed(n) ==
  LET item == fnArgs.items[n]
      variant == fnArgs.variant
      timestamp == QInt(fnOut.timestamp)
      start == item.startTimestamp
      completed == reportedCompleted(variant, fnOut.result, n)
      startFixed == QGreaterEq(start, QFin(FZero))
      animated == QLess(QFin(FZero), item.duration) /\ TargetApart(item)
      immediate == QGreaterEq(QFin(FZero), item.duration) \/ ~TargetApart(item)
  IN  /\ (animated /\ startFixed) =>
           /\ QLess(QSub(timestamp, start), item.duration) => ~completed
           /\ QGreaterEq(QSub(timestamp, start), item.duration) =>
                completed /\ reportedValue(variant, fnOut.result, n)
                               = FinalValueOf(n)
           /\ n \in fnOut.completedBefore => completed
      /\ immediate =>
           completed /\ reportedValue(variant, fnOut.result, n)
                          = FinalValueOf(n)
      /\ reportedEffectiveStart(variant, fnOut.result, n)
           = IF startFixed THEN start ELSE timestamp

\* C28: an item with a fixed startTimestamp >= 0, evaluated at finite
\* timestamps that do not decrease, with duration > 0 and
\* |target - from| > 1e-6 is not completed while timestamp - start <
\* duration and completed with the final value from then on, never
\* reverting; with duration <= 0 or |target - from| <= 1e-6 it is completed
\* at once with the final value; the reported effective start is
\* startTimestamp if that is >= 0 and the current timestamp otherwise.
C28_CompletionFollowsElapsedTime ==
  fnOut.evaluations >= 1 =>
    \A n \in 1..Len(fnArgs.items) : CompletionAsClaimed(n)

----------------------------------------------------------------------------
(* Properties: NDC depth bias *)

\* C29: for a surface item the NDC depth bias is enabled under the same
\* condition and has the same value in DepthCollect and in PrepareDraw, and
\* is applied in the one if and only if it is applied in the other, for
\* every combination of bit 2 of the input flags and the frame constant.
C29_BiasAgreesInBothPhases ==
  fn = "prepareDrawSpriteImageInternal" =>
    /\ fnOut[1].enabled <=> fnOut[2].enabled
    /\ fnOut[1].depthBiasNdc = fnOut[2].depthBiasNdc
    /\ fnOut[1].applied <=> fnOut[2].applied
    /\ fnOut[1].clipZ = fnOut[2].clipZ

----------------------------------------------------------------------------
(* Properties: frames without a clip context *)

\* The frame with a clip context that is otherwise the same
WithClipContext(f) ==
  [f EXCEPT !.drawingBufferPositive = TRUE, !.pixelRatioUsable = TRUE]

EntryOfBucket(i) == itemTable[bucketItems[i].entry]
PackedItems == {outSlots[j].src : j \in 1..outHeader.preparedCount}
DepthItemsOf(i) == {n \in 1..Len(depthItems) : depthItems[n].item = i}

\* C30: without a valid clip context every surface item is dropped in
\* PrepareDraw, although Precompute resolved its center (by screen
\* projection) and DepthCollect gave it a depth key; billboards of the
\* frame are emitted as they are under a clip context.
C30_NoClipContextDropsSurfacesOnly ==
  (Returned /\ ~clipContextAvailable(frame)) =>
    /\ \A i \in PackedItems : ~isSurface(EntryOfBucket(i))
    /\ \A i \in 1..Len(bucketItems) :
         isSurface(EntryOfBucket(i)) =>
           /\ PrecomputeVisits(itemTable, bucketItems[i]) =>
                /\ bucketItems[i].hasResolvedAnchorCenter
                /\ surfaceCenterProjection(frame) = "projectSpritePoint"
           /\ processDepthItem(itemTable, resources, bucketItems, i).push =>
                \E n \in DepthItemsOf(i) : depthItems[n].hasSurfaceData
    /\ \A n \in 1..Len(depthItems) :
         LET i == depthItems[n].item
         IN  ~isSurface(EntryOfBucket(i)) =>
               /\ i \in PackedItems <=>
                    prepareDrawSpriteImageInternal(
                      itemTable, resources, bucketItems,
                      WithClipContext(frame), depthItems[n]).ok
               /\ \A j \in 1..outHeader.preparedCount :
                    outSlots[j].src = i =>
                      outSlots[j] = ResultRecord(itemTable, resources,
                                                 bucketItems,
                                                 WithClipContext(frame),
                                                 depthItems[n])

\* C30 witness: a frame without clip context has returned; a surface item
\* with a resolved center and a depth item was dropped, a billboard emitted
C30_Witness ==
  /\ Returned
  /\ ~clipContextAvailable(frame)
  /\ \E i \in 1..Len(bucketItems) :
       /\ isSurface(EntryOfBucket(i))
       /\ bucketItems[i].hasResolvedAnchorCenter
       /\ \E n \in DepthItemsOf(i) : depthItems[n].hasSurfaceData
       /\ i \notin PackedItems
  /\ \E i \in PackedItems : ~isSurface(EntryOfBucket(i))

====
